---- MODULE Spec2Model ----
(***************************************************************************)
(* A model of reqwire (src/src/reqwire): the requirement-file model, the   *)
(* file writer, the canonical-name resolver, the specifier resolver and    *)
(* the `remove` command.                                                   *)
(*                                                                         *)
(* Text is modelled as text: a string is a sequence of one-character       *)
(* strings, so that rendering, lowercasing, sorting and parsing are        *)
(* computed the way the code (and the pip / pip-tools functions it calls)  *)
(* computes them.                                                          *)
(***************************************************************************)
EXTENDS Integers, Sequences, FiniteSets, TLC

(***************************************************************************)
(* Characters and strings                                                  *)
(***************************************************************************)

\* The code point of a character (ASCII); Python compares strings by it.
Ord(c) ==
    CASE c = "\n" -> 10
      [] c = " " -> 32
      [] c = "#" -> 35
      [] c = "(" -> 40
      [] c = ")" -> 41
      [] c = "+" -> 43
      [] c = "-" -> 45
      [] c = "." -> 46
      [] c = "/" -> 47
      [] c = "0" -> 48
      [] c = "1" -> 49
      [] c = "2" -> 50
      [] c = "3" -> 51
      [] c = "4" -> 52
      [] c = "5" -> 53
      [] c = "6" -> 54
      [] c = "7" -> 55
      [] c = "8" -> 56
      [] c = "9" -> 57
      [] c = ":" -> 58
      [] c = "<" -> 60
      [] c = "=" -> 61
      [] c = ">" -> 62
      [] c = "A" -> 65
      [] c = "B" -> 66
      [] c = "a" -> 97
      [] c = "b" -> 98
      [] c = "c" -> 99
      [] c = "d" -> 100
      [] c = "e" -> 101
      [] c = "f" -> 102
      [] c = "i" -> 105
      [] c = "l" -> 108
      [] c = "m" -> 109
      [] c = "n" -> 110
      [] c = "o" -> 111
      [] c = "p" -> 112
      [] c = "q" -> 113
      [] c = "r" -> 114
      [] c = "t" -> 116
      [] c = "u" -> 117
      [] c = "v" -> 118
      [] c = "x" -> 120

\* str.lower() on one character.
LowerChar(c) ==
    CASE c = "A" -> "a"
      [] c = "B" -> "b"
      [] OTHER -> c

\* str.lower()
Lower(s) == [i \in 1..Len(s) |-> LowerChar(s[i])]

IsLetter(c) == c \in {"A", "B", "a", "b"}

\* Python's s < t on strings: lexicographic by code point, a proper prefix first.
StrLess(s, t) ==
    \E k \in 1..(Len(t)) :
        /\ \A j \in 1..(k - 1) : j <= Len(s) /\ s[j] = t[j]
        /\ k - 1 <= Len(s)
        /\ \/ k = Len(s) + 1
           \/ k <= Len(s) /\ Ord(s[k]) < Ord(t[k])

Digits == <<"0", "1", "2", "3", "4", "5", "6", "7", "8", "9">>

\* '%s' % n for a non-negative integer.
RECURSIVE ToStr(_)
ToStr(n) ==
    IF n < 10 THEN <<Digits[n + 1]>>
    ELSE ToStr(n \div 10) \o <<Digits[(n % 10) + 1]>>

\* s.startswith(prefix)
StartsWith(s, prefix) ==
    /\ Len(prefix) <= Len(s)
    /\ SubSeq(s, 1, Len(prefix)) = prefix

\* s with every space removed (whitespace between the tokens of a requirement
\* is not part of the parsed requirement).
RemoveSpaces(s) == SelectSeq(s, LAMBDA c : c # " ")

\* The concatenation of a sequence of strings.
RECURSIVE Concat(_)
Concat(ss) == IF ss = <<>> THEN <<>> ELSE Head(ss) \o Concat(Tail(ss))

\* The elements of a sequence.
Range(s) == {s[i] : i \in 1..Len(s)}


(***************************************************************************)
(* Install requirements (pip.req.InstallRequirement as the code uses it)   *)
(*                                                                         *)
(* name, specifier : the parsed requirement `req` (name <<>>: no req)      *)
(* editable, link  : set for a `-e <url>` line of a requirements file      *)
(* comes_from      : the provenance pip records, "-r <file> (line <n>)",   *)
(*                   <<>> for a requirement built from a bare line         *)
(***************************************************************************)

NoText == <<>>

\* The name part of a requirement text: its leading letters.
RECURSIVE NameLen(_)
NameLen(s) ==
    IF s # <<>> /\ IsLetter(Head(s)) THEN 1 + NameLen(Tail(s)) ELSE 0

\* pip.req.InstallRequirement.from_line(line, comes_from): the requirement a
\* line `name[<op><version>]` parses to; it is never editable.
from_line(line, comes_from) ==
    LET text == RemoveSpaces(line)
        n    == NameLen(text)
    IN  [name       |-> SubSeq(text, 1, n),
         specifier  |-> SubSeq(text, n + 1, Len(text)),
         editable   |-> FALSE,
         link       |-> NoText,
         comes_from |-> comes_from]

\* pip.req.InstallRequirement.from_editable(url, comes_from) for a URL
\* without an egg fragment: no parsed requirement, only the link.
from_editable(url, comes_from) ==
    [name       |-> NoText,
     specifier  |-> NoText,
     editable   |-> TRUE,
     link       |-> url,
     comes_from |-> comes_from]

\* HashableInstallRequirement.from_ireq: a new object with the same fields.
from_ireq(ireq) ==
    [name       |-> ireq.name,
     specifier  |-> ireq.specifier,
     editable   |-> ireq.editable,
     link       |-> ireq.link,
     comes_from |-> ireq.comes_from]

\* str(ireq.req)
ReqStr(ireq) == ireq.name \o ireq.specifier

\* str(ireq), pip's InstallRequirement.__str__: the requirement, then
\* " from <link>" for a link, then " (from <comes_from>)" for a provenance.
Str(ireq) ==
    LET base == IF ireq.name # NoText
                THEN ReqStr(ireq) \o
                     (IF ireq.link # NoText
                      THEN <<" ", "f", "r", "o", "m", " ">> \o ireq.link
                      ELSE <<>>)
                ELSE ireq.link
    IN  IF ireq.comes_from # NoText
        THEN base \o <<" ", "(", "f", "r", "o", "m", " ">>
                  \o ireq.comes_from \o <<")">>
        ELSE base

\* hash() of a string: a deterministic function of its characters (Python's
\* is a keyed 64-bit hash; what the code relies on is that equal strings
\* hash equally, and different strings may collide).
RECURSIVE HashStr(_)
HashStr(s) ==
    IF s = <<>> THEN 7
    ELSE (HashStr(SubSeq(s, 1, Len(s) - 1)) * 31 + Ord(s[Len(s)])) % 64

\* A plausible slip in __eq__: comparing the underlying requirement only.
EqReqOnly(a, b) == ReqStr(a) = ReqStr(b)

\* HashableInstallRequirement.__eq__
Eq(a, b) == Str(a) = Str(b)

\* HashableInstallRequirement.__hash__
Hash(a) == HashStr(Str(a))

\* x in items, for a hash-based set: same hash and equal.
SetContains(items, x) ==
    \E i \in 1..Len(items) : Hash(items[i]) = Hash(x) /\ Eq(items[i], x)

\* ordered_set.OrderedSet.add
OrderedSetAdd(items, x) ==
    IF SetContains(items, x) THEN items ELSE Append(items, x)

\* ordered_set.OrderedSet(iterable): the first occurrence of each member.
RECURSIVE OrderedSetOf(_)
OrderedSetOf(seq) ==
    IF seq = <<>> THEN <<>>
    ELSE OrderedSetAdd(OrderedSetOf(SubSeq(seq, 1, Len(seq) - 1)),
                       seq[Len(seq)])

\* ordered_set.OrderedSet(iterable) for an iterable of strings (index URLs).
RECURSIVE OrderedSetOfText(_)
OrderedSetOfText(seq) ==
    IF seq = <<>> THEN <<>>
    ELSE LET front == OrderedSetOfText(SubSeq(seq, 1, Len(seq) - 1))
             x     == seq[Len(seq)]
         IN  IF \E i \in 1..Len(front) : front[i] = x
             THEN front ELSE Append(front, x)

\* piptools.utils.is_pinned_requirement: not editable and a single `==`
\* specifier (the lines of this model carry at most one specifier clause).
is_pinned_requirement(ireq) ==
    /\ ~ireq.editable
    /\ StartsWith(ireq.specifier, <<"=", "=">>)

\* piptools.utils.name_from_req applied to an install requirement: its name.
name_from_req(ireq) == ireq.name

\* A slip in the formatter: the requirement text in the case it has.
FormatKeepCase(ireq) ==
    IF ireq.editable
    THEN <<"-", "e", " ">> \o ireq.link
    ELSE ReqStr(ireq)

\* piptools.utils.format_requirement: `-e <link>` for an editable, else the
\* requirement text in lower case (tests/unit/test_scaffold.py: a resolved
\* `Flask==0.11.1` is written as `flask==0.11.1`).
format_requirement(ireq) ==
    IF ireq.editable
    THEN <<"-", "e", " ">> \o ireq.link
    ELSE Lower(ReqStr(ireq))


(***************************************************************************)
(* Requirements files: text on disk, parsed line by line                   *)
(*                                                                         *)
(* A file system maps a path to [exists, data]; every file of the model    *)
(* lives in one directory, so a nested reference `-r q` names the path q.  *)
(***************************************************************************)

\* The number of nested RequirementFile constructions after which Python's
\* recursion limit ends a parse.
MaxDepth == 3

NoFile == [exists |-> FALSE, data |-> <<>>]

File(data) == [exists |-> TRUE, data |-> data]

\* pathlib.Path(filename).exists()
Exists(files, path) == path \in DOMAIN files /\ files[path].exists

\* The position of the first c in s, 0 when there is none.
IndexOf(s, c) ==
    IF \E k \in 1..Len(s) : s[k] = c
    THEN CHOOSE k \in 1..Len(s) : s[k] = c /\ \A j \in 1..(k - 1) : s[j] # c
    ELSE 0

\* str.splitlines(): the lines of a text, without their newlines.
RECURSIVE SplitLines(_)
SplitLines(s) ==
    IF s = <<>> THEN <<>>
    ELSE LET k == IndexOf(s, "\n")
         IN  IF k = 0 THEN <<s>>
             ELSE <<SubSeq(s, 1, k - 1)>> \o SplitLines(SubSeq(s, k + 1, Len(s)))

\* The whitespace-separated tokens of a line (shlex.split, str.split).
RECURSIVE Tokens(_)
Tokens(s) ==
    IF s = <<>> THEN <<>>
    ELSE IF Head(s) = " " THEN Tokens(Tail(s))
    ELSE LET k == IndexOf(s, " ")
         IN  IF k = 0 THEN <<s>>
             ELSE <<SubSeq(s, 1, k - 1)>> \o Tokens(SubSeq(s, k, Len(s)))

\* pip.req.req_file.ignore_comments: the tokens before the first token that
\* starts a comment.
RECURSIVE StripComment(_)
StripComment(tokens) ==
    IF tokens = <<>> THEN <<>>
    ELSE IF Head(Head(tokens)) = "#" THEN <<>>
    ELSE <<Head(tokens)>> \o StripComment(Tail(tokens))

\* pip.req.req_file.break_args_options: the tokens before the first option.
RECURSIVE ArgTokens(_)
ArgTokens(tokens) ==
    IF tokens = <<>> THEN <<>>
    ELSE IF Head(Head(tokens)) = "-" THEN <<>>
    ELSE <<Head(tokens)>> \o ArgTokens(Tail(tokens))

Opt_r == <<"-", "r">>
Opt_c == <<"-", "c">>
Opt_e == <<"-", "e">>
Opt_index_url == <<"-", "-", "i", "n", "d", "e", "x", "-", "u", "r", "l">>
Opt_extra_index_url ==
    <<"-", "-", "e", "x", "t", "r", "a", "-",
      "i", "n", "d", "e", "x", "-", "u", "r", "l">>

\* What a line of a requirements file is, from its tokens: a requirement
\* (args), or an option with its value.
LineKind(tokens) ==
    IF tokens = <<>> THEN "blank"
    ELSE IF ArgTokens(tokens) # <<>> THEN "requirement"
    ELSE IF Len(tokens) < 2 THEN "other"
    ELSE IF tokens[1] = Opt_e THEN "editable"
    ELSE IF tokens[1] = Opt_r THEN "requirements"
    ELSE IF tokens[1] = Opt_c THEN "constraints"
    ELSE IF tokens[1] = Opt_index_url THEN "index_url"
    ELSE IF tokens[1] = Opt_extra_index_url THEN "extra_index_url"
    ELSE "other"

\* pip's line_comes_from: '-r <file> (line <n>)', '-c ...' for a constraint.
LineComesFrom(filename, n, constraint) ==
    (IF constraint THEN Opt_c ELSE Opt_r) \o <<" ">> \o filename
        \o <<" ", "(", "l", "i", "n", "e", " ">> \o ToStr(n) \o <<")">>

\* pathlib.Path(filename).parent and os.path.dirname(filename): the path up
\* to its last separator, empty for a bare file name.
RECURSIVE Parent(_)
Parent(path) ==
    IF path = <<>> THEN <<>>
    ELSE IF path[Len(path)] = "/" THEN SubSeq(path, 1, Len(path) - 1)
    ELSE Parent(SubSeq(path, 1, Len(path) - 1))

\* os.path.join(os.path.dirname(filename), ref) and
\* pathlib.Path(filename).parent / ref: the reference taken relative to
\* the directory of the file that holds it, unless it is absolute.
NestedPath(filename, ref) ==
    IF ref # <<>> /\ ref[1] = "/" THEN ref
    ELSE IF Parent(filename) = <<>> THEN ref
    ELSE Parent(filename) \o <<"/">> \o ref

\* pip.models.PyPI.simple_url, the default index of a pip session.
PyPI_simple_url == <<"u", "0">>

\* pip.req.parse_requirements(filename, finder, ...): the requirements of
\* the file and, recursively, of the files it includes, in line order; the
\* index options of the lines update the finder's index_urls as they are
\* met.  err: "ok", "enoent" (a file that cannot be opened) or "recursion".
RECURSIVE PipParseFile(_, _, _, _, _)
RECURSIVE PipParseLines(_, _, _, _, _, _, _)
PipParseLines(files, filename, constraint, lines, n, acc, fuel) ==
    IF n > Len(lines) \/ acc.err # "ok" THEN acc
    ELSE
      LET tokens == StripComment(Tokens(lines[n]))
          kind   == LineKind(tokens)
          from   == LineComesFrom(filename, n, constraint)
          next   ==
            CASE kind = "requirement" ->
                   [acc EXCEPT !.reqs = Append(@,
                       from_line(Concat(ArgTokens(tokens)), from))]
              [] kind = "editable" ->
                   [acc EXCEPT !.reqs = Append(@,
                       from_editable(tokens[2], from))]
              [] kind = "requirements" ->
                   LET sub == PipParseFile(files,
                                  NestedPath(filename, tokens[2]), FALSE,
                                  acc.index_urls, fuel - 1)
                   IN  [reqs |-> acc.reqs \o sub.reqs,
                        index_urls |-> sub.index_urls, err |-> sub.err]
              [] kind = "constraints" ->
                   LET sub == PipParseFile(files,
                                  NestedPath(filename, tokens[2]), TRUE,
                                  acc.index_urls, fuel - 1)
                   IN  [reqs |-> acc.reqs \o sub.reqs,
                        index_urls |-> sub.index_urls, err |-> sub.err]
              [] kind = "index_url" ->
                   [acc EXCEPT !.index_urls = <<tokens[2]>>]
              [] kind = "extra_index_url" ->
                   [acc EXCEPT !.index_urls = Append(@, tokens[2])]
              [] OTHER -> acc
      IN  PipParseLines(files, filename, constraint, lines, n + 1, next, fuel)

PipParseFile(files, filename, constraint, index_urls, fuel) ==
    IF fuel <= 0
    THEN [reqs |-> <<>>, index_urls |-> index_urls, err |-> "recursion"]
    ELSE IF ~Exists(files, filename)
    THEN [reqs |-> <<>>, index_urls |-> index_urls, err |-> "enoent"]
    ELSE PipParseLines(files, filename, constraint,
                       SplitLines(files[filename].data), 1,
                       [reqs |-> <<>>, index_urls |-> index_urls,
                        err |-> "ok"],
                       fuel)


\* sorted(requirements, key=lambda ireq: str(ireq)): a stable sort, here by
\* insertion: each element goes after the elements whose key is not greater.
InsertByStr(sorted, x) ==
    LET k == Cardinality({i \in 1..Len(sorted) :
                             ~StrLess(Str(x), Str(sorted[i]))})
    IN  SubSeq(sorted, 1, k) \o <<x>> \o SubSeq(sorted, k + 1, Len(sorted))

RECURSIVE SortedByStr(_)
SortedByStr(seq) ==
    IF seq = <<>> THEN <<>>
    ELSE InsertByStr(SortedByStr(SubSeq(seq, 1, Len(seq) - 1)), seq[Len(seq)])

\* A slip in the scan for nested files: no line is taken for an include.
NotNested(line) == [kind |-> "none", ref |-> <<>>]

\* The option tokens of a raw line: what follows its arguments.
OptionTokens(tokens) ==
    SubSeq(tokens, Len(ArgTokens(tokens)) + 1, Len(tokens))

\* The nested file a raw line of a requirements file refers to, as
\* parse_nested_files reads it: kind "requirements", "constraints" or "none".
NestedRef(line) ==
    LET opts == OptionTokens(Tokens(line))
    IN  IF StartsWith(line, <<"#">>) \/ Len(opts) < 2
        THEN [kind |-> "none", ref |-> <<>>]
        ELSE IF opts[1] = Opt_r
        THEN [kind |-> "requirements", ref |-> opts[2]]
        ELSE IF opts[1] = Opt_c
        THEN [kind |-> "constraints", ref |-> opts[2]]
        ELSE [kind |-> "none", ref |-> <<>>]

\* An OrderedSet without the members of a set of requirements
\* (requirements -= nested_requirements).
OrderedSetMinus(items, others) ==
    SelectSeq(items, LAMBDA r : ~SetContains(others, r))

\* A slip the subtraction guards against: keeping everything pip's
\* recursive parse returned.
KeepNested(items, others) == items

\* The requirements of a file that are its own: line 217.
OwnRequirements(items, others) == OrderedSetMinus(items, others)

\* A RequirementFile object: its four fields, and how its construction ended.
EmptyRequirementFile(filename, err) ==
    [filename      |-> filename,
     requirements  |-> <<>>,
     index_urls    |-> <<>>,
     nested_cfiles |-> <<>>,
     nested_rfiles |-> <<>>,
     err           |-> err]

\* The first error among the nested files, "ok" when there is none.
FirstErr(rfiles) ==
    IF \E i \in 1..Len(rfiles) : rfiles[i].err # "ok"
    THEN rfiles[CHOOSE i \in 1..Len(rfiles) :
                    /\ rfiles[i].err # "ok"
                    /\ \A j \in 1..(i - 1) : rfiles[j].err = "ok"].err
    ELSE "ok"

\* RequirementFile(filename): __init__ with no requirements given reloads
\* an existing file; reload() stores what parse() returns.
\* parse(): the nested files (each a new RequirementFile, with no guard
\* against a cycle), pip's parse of the whole file, the sorted ordered set
\* of its requirements, and the subtraction of the requirements of the
\* nested requirements files.
RECURSIVE RequirementFile(_, _, _)
RECURSIVE parse_nested_files(_, _, _, _, _)
parse_nested_files(files, filename, lines, kind, fuel) ==
    IF lines = <<>> THEN <<>>
    ELSE LET ref  == NestedRef(Head(lines))
             rest == parse_nested_files(files, filename, Tail(lines),
                                        kind, fuel)
         IN  IF ref.kind = kind
             THEN <<RequirementFile(files, NestedPath(filename, ref.ref),
                                    fuel - 1)>> \o rest
             ELSE rest

RequirementFile(files, filename, fuel) ==
    IF fuel <= 0 THEN EmptyRequirementFile(filename, "recursion")
    ELSE IF ~Exists(files, filename) THEN EmptyRequirementFile(filename, "ok")
    ELSE
      LET lines   == SplitLines(files[filename].data)
          cfiles  == parse_nested_files(files, filename, lines,
                                        "constraints", fuel)
          rfiles  == parse_nested_files(files, filename, lines,
                                        "requirements", fuel)
          nesterr == FirstErr(rfiles \o cfiles)
          parsed  == PipParseFile(files, filename, FALSE,
                                  <<PyPI_simple_url>>, fuel)
          reqs    == OrderedSetOf(SortedByStr(
                         [i \in 1..Len(parsed.reqs) |->
                             from_ireq(parsed.reqs[i])]))
          nested  == Concat([i \in 1..Len(rfiles) |-> rfiles[i].requirements])
      IN  IF nesterr # "ok" THEN EmptyRequirementFile(filename, nesterr)
          ELSE IF parsed.err # "ok"
          THEN EmptyRequirementFile(filename, parsed.err)
          ELSE [filename      |-> filename,
                requirements  |-> OwnRequirements(reqs, nested),
                index_urls    |-> OrderedSetOfText(parsed.index_urls),
                nested_cfiles |-> cfiles,
                nested_rfiles |-> rfiles,
                err           |-> "ok"]


(***************************************************************************)
(* Writing a requirements file                                             *)
(***************************************************************************)

\* A slip in the writer: no newline after a requirement.
RECURSIVE FormatLinesJoined(_)
FormatLinesJoined(reqs) ==
    IF reqs = <<>> THEN <<>>
    ELSE format_requirement(Head(reqs)) \o FormatLinesJoined(Tail(reqs))

\* The lines write_requirements writes for the requirements in the order
\* given: format_requirement(ireq), then a newline, for each.
RECURSIVE FormatLines(_)
FormatLines(reqs) ==
    IF reqs = <<>> THEN <<>>
    ELSE format_requirement(Head(reqs)) \o <<"\n">> \o FormatLines(Tail(reqs))

\* A slip in the writer: the requirements written in iteration order.
UnsortedContent(requirements, header) ==
    header \o FormatLines(requirements)

\* What write_requirements(filename, requirements, header=header) leaves in
\* the file: the header if any, then the requirements sorted by str(ireq).
WriteContent(requirements, header) ==
    header \o FormatLines(SortedByStr(requirements))

\* reqwire.scaffold.MODELINES_HEADER: comment lines (here one short one).
MODELINES_HEADER == <<"#", "m", "\n">>

\* "-c <file>\n" (or "-r", "--extra-index-url") for each element.
RECURSIVE OptionLines(_, _)
OptionLines(opt, values) ==
    IF values = <<>> THEN <<>>
    ELSE opt \o <<" ">> \o Head(values) \o <<"\n">>
             \o OptionLines(opt, Tail(values))

\* reqwire.scaffold.build_source_header(index_url, extra_index_urls,
\* nested_cfiles, nested_rfiles) at time `timestamp`: the modelines, the
\* "generated on" comment, the nested constraint and requirement files (each
\* by its str(), its filename), the index URL and the extra index URLs.
build_source_header(index_urls, nested_cfiles, nested_rfiles, timestamp) ==
    MODELINES_HEADER
      \o <<"#", " ">> \o ToStr(timestamp) \o <<"\n">>
      \o OptionLines(Opt_c, [i \in 1..Len(nested_cfiles) |->
                                nested_cfiles[i].filename])
      \o OptionLines(Opt_r, [i \in 1..Len(nested_rfiles) |->
                                nested_rfiles[i].filename])
      \o (IF index_urls # <<>>
          THEN OptionLines(Opt_index_url, <<index_urls[1]>>)
          ELSE <<>>)
      \o OptionLines(Opt_extra_index_url,
                     SubSeq(index_urls, 2, Len(index_urls)))

(***************************************************************************)
(* reqwire remove                                                          *)
(***************************************************************************)

\* The inner loop of main_remove for one target name: a for loop over the
\* ordered set's item list that removes from that list as it goes.  The
\* list iterator is at position i; a removal shifts the later items down
\* and the iterator still moves on to i + 1.
RECURSIVE RemoveLoop(_, _, _)
RemoveLoop(items, i, target) ==
    IF i > Len(items) THEN items
    ELSE IF name_from_req(items[i]) = target
    THEN RemoveLoop(SubSeq(items, 1, i - 1) \o SubSeq(items, i + 1, Len(items)),
                    i + 1, target)
    ELSE RemoveLoop(items, i + 1, target)

\* The outer loop of main_remove: one pass per specifier of the command line.
RECURSIVE RemoveAll(_, _)
RemoveAll(items, specifiers) ==
    IF specifiers = <<>> THEN items
    ELSE RemoveAll(RemoveLoop(items, 1,
                              name_from_req(from_line(Head(specifiers), NoText))),
                   Tail(specifiers))


(***************************************************************************)
(* The canonical-name resolver: PyPiHtmlParser and get_canonical_name      *)
(*                                                                         *)
(* A listing page is a sequence of lines (response.iter_lines()); a line   *)
(* is the sequence of events html.parser makes of it: a start tag, an end  *)
(* tag or character data.                                                  *)
(***************************************************************************)

StartTag(tag) == [kind |-> "start", arg |-> <<tag>>]
EndTag(tag)   == [kind |-> "end", arg |-> <<tag>>]
Data(text)    == [kind |-> "data", arg |-> text]

\* <a>text</a>
Anchor(text) == <<StartTag("a"), Data(text), EndTag("a")>>

\* PyPiHtmlParser.__init__
NewParser(search) ==
    [search             |-> Lower(search),
     state              |-> "waiting",
     collected_packages |-> <<>>]

\* PyPiHtmlParser.handle_starttag
handle_starttag(parser, tag) ==
    IF tag = <<"a">>
    THEN [parser EXCEPT !.state = "collecting_package_name"]
    ELSE parser

\* PyPiHtmlParser.handle_endtag
handle_endtag(parser, tag) ==
    IF tag = <<"a">> /\ parser.state = "collecting_package_name"
    THEN [parser EXCEPT !.state = "waiting"]
    ELSE parser

\* A slip in handle_data: the data is collected in every state.
CollectInAnyState(parser, data) ==
    [parser EXCEPT
       !.collected_packages = Append(@, data),
       !.state = IF Lower(data) = parser.search
                 THEN "found_package_name" ELSE @]

\* PyPiHtmlParser.handle_data
handle_data(parser, data) ==
    IF parser.state = "collecting_package_name"
    THEN [parser EXCEPT
            !.collected_packages = Append(@, data),
            !.state = IF Lower(data) = parser.search
                      THEN "found_package_name" ELSE @]
    ELSE parser

\* The handler html.parser calls for one event.
HandleEvent(parser, ev) ==
    CASE ev.kind = "start" -> handle_starttag(parser, ev.arg)
      [] ev.kind = "end"   -> handle_endtag(parser, ev.arg)
      [] ev.kind = "data"  -> handle_data(parser, ev.arg)

\* parser.feed(line): the handlers called for the events of the line, in order.
RECURSIVE Feed(_, _)
Feed(parser, line) ==
    IF line = <<>> THEN parser
    ELSE Feed(HandleEvent(parser, Head(line)), Tail(line))

\* A slip in the return: the name collected first.
ReturnedFirst(p) == p.collected_packages[1]

\* What get_canonical_name returns once the parser has found the name:
\* parser.collected_packages[-1].
Returned(p) == p.collected_packages[Len(p.collected_packages)]

\* The index URLs get_canonical_name iterates over: the default public
\* index when index_urls is empty or omitted.
SearchedIndexes(index_urls) ==
    IF index_urls = <<>> THEN <<PyPI_simple_url>> ELSE index_urls

(***************************************************************************)
(* The specifier resolver                                                  *)
(***************************************************************************)

\* A slip in the shortcut: only an editable requirement is returned as is.
NeedsLookupUnlessEditable(ireq) == ~ireq.editable

\* resolve_specifier's branch: the best-match lookup is made unless the
\* requirement is editable or pinned.
NeedsLookup(ireq) == ~(ireq.editable \/ is_pinned_requirement(ireq))

(***************************************************************************)
(* Building the requirements of `add`: build_ireq_set and what it calls,   *)
(* as functions of the answers of the network: `best`, the candidate       *)
(* find_best_match has for a name (or none), and `listing`, the listing    *)
(* page of each index URL.                                                 *)
(***************************************************************************)

NotFound == [status |-> "raised", name |-> <<>>]

\* The listing page requests.get(index_url) answers with.
PageOf(listing, url) == IF url \in DOMAIN listing THEN listing[url] ELSE <<>>

\* get_canonical_name's inner loop over the lines of one index.
RECURSIVE ScanPage(_, _, _)
ScanPage(p, page, n) ==
    IF n > Len(page) THEN NotFound
    ELSE LET fed == Feed(p, page[n])
         IN  IF fed.state = "found_package_name"
             THEN [status |-> "returned", name |-> Returned(fed)]
             ELSE ScanPage(fed, page, n + 1)

\* get_canonical_name's outer loop over the index URLs, a new parser each.
RECURSIVE ScanIndexes(_, _, _)
ScanIndexes(listing, package_name, urls) ==
    IF urls = <<>> THEN NotFound
    ELSE LET r == ScanPage(NewParser(package_name),
                           PageOf(listing, Head(urls)), 1)
         IN  IF r.status = "returned" THEN r
             ELSE ScanIndexes(listing, package_name, Tail(urls))

\* get_canonical_name(package_name, index_urls), the index URLs in the
\* order the iteration takes them.
get_canonical_name(listing, package_name, urls) ==
    ScanIndexes(listing, package_name, SearchedIndexes(urls))

\* resolve_specifier(specifier, prereleases, *args): the requirement, whether
\* find_best_match was called, whether it raised NoCandidateFound.
resolve_specifier(best, specifier, prereleases) ==
    LET ireq == from_line(specifier, NoText)
    IN  IF NeedsLookup(ireq)
        THEN [ireq   |-> best[Lower(ireq.name)].ireq,
              looked |-> TRUE,
              raised |-> ~best[Lower(ireq.name)].found]
        ELSE [ireq |-> ireq, looked |-> FALSE, raised |-> FALSE]

\* update_ireq_name: the name of the requirement replaced.
update_ireq_name(install_requirement, package_name) ==
    [install_requirement EXCEPT !.name = package_name]

\* sorted(specifiers): the lines in string order, repetitions kept.
RECURSIVE InsertString(_, _)
InsertString(sorted, x) ==
    IF sorted = <<>> THEN <<x>>
    ELSE IF StrLess(x, Head(sorted)) THEN <<x>> \o sorted
    ELSE <<Head(sorted)>> \o InsertString(Tail(sorted), x)

RECURSIVE SortedStrings(_)
SortedStrings(seq) ==
    IF seq = <<>> THEN <<>>
    ELSE InsertString(SortedStrings(SubSeq(seq, 1, Len(seq) - 1)),
                      seq[Len(seq)])

\* install_requirements.add(ireq) on an ordered set whose members are
\* objects: a HashableInstallRequirement is found in the set by its
\* rendering; a pip.req.InstallRequirement, which defines neither __eq__ nor
\* __hash__, is found only if it is the same object, and every object
\* build_ireq_set adds is new.
InstallSetAdd(items, x) ==
    IF /\ x.hashable
       /\ \E i \in 1..Len(items) : items[i].hashable /\ Eq(items[i].ireq, x.ireq)
    THEN items
    ELSE Append(items, x)

NoBuilt == [items |-> <<>>, err |-> "ok", resolved |-> <<>>, looked |-> <<>>]

\* The loop of build_ireq_set over the sorted specifiers.  resolve_specifier
\* returns pip.req.InstallRequirement objects, from_line of the hashable
\* class a HashableInstallRequirement; acc.resolved and acc.looked are the
\* specifiers resolve_specifier and find_best_match were called with.
RECURSIVE BuildLoop(_, _, _, _, _, _, _, _)
BuildLoop(best, listing, specifiers, urls, prereleases, resolve_canonical_names, resolve_versions, acc) ==
    IF specifiers = <<>> \/ acc.err # "ok" THEN acc
    ELSE
      LET specifier == Head(specifiers)
          resolved  ==
              IF resolve_versions
              THEN resolve_specifier(best, specifier, prereleases)
              ELSE [ireq |-> from_line(specifier, NoText),
                    looked |-> FALSE, raised |-> FALSE]
          canonical == get_canonical_name(listing,
                                          name_from_req(resolved.ireq), urls)
          named     == IF resolve_canonical_names
                       THEN update_ireq_name(resolved.ireq, canonical.name)
                       ELSE resolved.ireq
          calls     == [acc EXCEPT
                          !.resolved = IF resolve_versions
                                       THEN Append(@, specifier) ELSE @,
                          !.looked = IF resolved.looked
                                     THEN Append(@, specifier) ELSE @]
          next      ==
              IF resolved.raised
              THEN [calls EXCEPT !.err = "NoCandidateFound"]
              ELSE IF resolve_canonical_names /\ canonical.status = "raised"
              THEN [calls EXCEPT !.err = "DistributionNotFound"]
              ELSE [calls EXCEPT
                      !.items = InstallSetAdd(@,
                                  [ireq |-> named,
                                   hashable |-> ~resolve_versions])]
      IN  BuildLoop(best, listing, Tail(specifiers), urls, prereleases,
                    resolve_canonical_names, resolve_versions, next)

\* build_ireq_set(specifiers, index_urls, prereleases,
\* resolve_canonical_names, resolve_versions)
build_ireq_set(best, listing, specifiers, urls, prereleases, resolve_canonical_names, resolve_versions) ==
    BuildLoop(best, listing, SortedStrings(specifiers), urls, prereleases,
              resolve_canonical_names, resolve_versions, NoBuilt)

\* requirements |= ireqs: each built object added to the ordered set of the
\* file's requirements, which are HashableInstallRequirement objects.
RECURSIVE InstallSetUnion(_, _)
InstallSetUnion(items, others) ==
    IF others = <<>> THEN items
    ELSE InstallSetUnion(InstallSetAdd(items, Head(others)), Tail(others))

\* The objects of an ordered set of install requirements.
IreqsOf(items) == [i \in 1..Len(items) |-> items[i].ireq]

\* requirements |= ireqs: the requirements of the file, which are
\* HashableInstallRequirement objects, united with the built ones.
MergedRequirements(requirements, items) ==
    IreqsOf(InstallSetUnion([i \in 1..Len(requirements) |->
                                [ireq |-> requirements[i], hashable |-> TRUE]],
                            items))

\* What a call of extend_source_file ends with: the error raised or the
\* header and the requirements handed to write_requirements.
Written(err, built, ireqs, header) ==
    [err     |-> err,
     built   |-> built,
     header  |-> header,
     requirements |-> ireqs,
     body    |-> WriteContent(ireqs, <<>>),
     content |-> WriteContent(ireqs, header)]

\* extend_source_file once the tag's file is parsed and the requirements of
\* the specifiers are built.
Extended(req_file, built, timestamp) ==
    Written(IF req_file.err # "ok" THEN req_file.err ELSE built.err,
            built,
            MergedRequirements(req_file.requirements, built.items),
            build_source_header(req_file.index_urls, req_file.nested_cfiles,
                                req_file.nested_rfiles, timestamp))

\* reqwire.scaffold.extend_source_file for one tag: the file loaded (an empty
\* model if it is absent), the requirements built, united with the file's,
\* and the file written under a new header.
extend_source_file(files, filename, specifiers, lookup_index_urls, prereleases, resolve_canonical_names, resolve_versions, best, listing, timestamp) ==
    Extended(RequirementFile(files, filename, MaxDepth),
             build_ireq_set(best, listing, specifiers, lookup_index_urls,
                            prereleases, resolve_canonical_names,
                            resolve_versions),
             timestamp)


(***************************************************************************)
(* State                                                                   *)
(***************************************************************************)

VARIABLES
    \* requirements files: the disk, the RequirementFile object a caller
    \* holds, the last operation and its write_requirements call, the
    \* requirements last written to each path without a header, the number
    \* of operations so far
    fs, rf, last, written, nops,
    \* equality and hashing: the requirement objects built so far, the line
    \* each was built from, an ordered set of them, the objects add() was
    \* called with
    heap, hlines, hset, hadded,
    \* the atomic write: the directory (target and temporary file), the
    \* writer's position and job, what a concurrent reader last read
    disk, wpc, wjob, observed,
    \* get_canonical_name: the listing page of each index, the arguments,
    \* the position in the index URLs and in the page, the parser, the outcome
    pages, index_urls, search, urlpos, linepos, parser, result,
    \* resolve_specifier: the best-match lookups made, the last call
    rcalls, rlast,
    \* reqwire add: the source files and what they were when the command
    \* began, the command line, the position of main_add and the tag it is
    \* at, the index URLs collected, the calls of extend_source_file made
    afs, afs0, acmd, apc, ak, alookup, acalls,
    \* whether the requirements directory existed, --install was given, pip
    \* install was run and succeeded
    astart,
    \* two invocations on one tag file: the directory, each invocation's
    \* job and position, the invocations in the order of their replace, the
    \* content the tag file began with
    cdisk, cproc, corder, cold,
    \* PyPiHtmlParser event by event: the parser, the number of events
    \* handled, what get_canonical_name returned
    hparser, hevents, hreturned,
    \* build_ireq_set: its arguments, the statement and the specifier it is at,
    \* the objects made, the one in hand, the members of the ordered set
    bargs, bpc, bi, bheap, bcur, bset,
    \* the construction of a RequirementFile: the files, what the scans
    \* and parses make of them, the constructors running, how the
    \* outermost ended
    nfiles, nscanned, nstack, nstatus

fileVars  == <<fs, rf, last, written, nops>>
eqVars    == <<heap, hlines, hset, hadded>>
atomVars  == <<disk, wpc, wjob, observed>>
indexVars == <<pages, index_urls, search, urlpos, linepos, parser, result>>
resVars   == <<rcalls, rlast>>
addVars   == <<afs, afs0, acmd, apc, ak, alookup, acalls, astart>>
raceVars  == <<cdisk, cproc, corder, cold>>
parserVars == <<hparser, hevents, hreturned>>
buildVars == <<bargs, bpc, bi, bheap, bcur, bset>>
constructVars == <<nfiles, nscanned, nstack, nstatus>>
vars      == <<fileVars, eqVars, atomVars, indexVars, resVars, addVars,
               raceVars, parserVars, buildVars, constructVars>>

\* The number of operations a behaviour of the files specification runs.
MaxOps == 2

\* The source directory, relative to the working directory as the default
\* `requirements/src` is, and the source files of two tags in it.
Dir == <<"d">>
File_p == <<"p">>
File_q == <<"q">>
P == Dir \o <<"/">> \o File_p
Q == Dir \o <<"/">> \o File_q
Paths == {P, Q}

\* Requirement lines of the command line and of hand-written files.
Line_a1  == <<"a", "=", "=", "1">>
Line_A1  == <<"A", "=", "=", "1">>
Line_a1s == <<"a", " ", "=", "=", "1">>
Line_age == <<"a", ">", "=", "1">>
Line_a   == <<"a">>
Line_b   == <<"b">>

\* Index URLs a file may declare.
Url_1 == <<"u", "1">>

\* The contents the tag file p starts with: absent; one pinned line; an
\* include of q, then a line q may declare too; three lines, two of one
\* name; a comment, a constraints include, an editable and an extra index.
InitialP ==
    { NoFile,
      File(Line_a1 \o <<"\n">>),
      File(Opt_r \o <<" ">> \o File_q \o <<"\n">> \o Line_a1 \o <<"\n">>
             \o Line_b \o <<"\n">>),
      File(<<"a", "<", "2", "\n">> \o Line_age \o <<"\n">>
             \o <<"B", "=", "=", "1", "\n">>),
      File(<<"#", "m", "\n">> \o Opt_c \o <<" ">> \o File_q \o <<"\n">>
             \o Opt_e \o <<" ", "v", "+", "x", "\n">>
             \o Opt_extra_index_url \o <<" ">> \o Url_1 \o <<"\n">>) }

\* The contents the included file q starts with.
InitialQ ==
    { NoFile,
      File(Line_a1 \o <<"\n">>),
      File(Line_b \o <<"\n">> \o Line_age \o <<"\n">>) }

\* The requirements a caller builds from lines and passes to the writer.
BuiltRequirements == {from_line(l, NoText) : l \in {Line_a1, Line_A1, Line_b}}

\* Every order of every subset of a set: the ways a set can be iterated.
Orderings(S) ==
    UNION {{seq \in [1..n -> S] :
               \A i, j \in 1..n : seq[i] = seq[j] => i = j} :
           n \in 0..Cardinality(S)}

\* The headers a caller passes: none, or a comment line.
Headers == {<<>>, <<"#", "h", "\n">>}

\* The specifier arguments of `reqwire remove`.
RemoveArgs ==
    { <<Line_a>>, <<Line_b>>, <<<<"a", "=", "=", "2">>>>, <<Line_a, Line_b>> }

\* datetime.now(), as the header prints it.
Timestamps == {1, 2}

NoObject == EmptyRequirementFile(<<>>, "none")

NoLast ==
    [op |-> "none", path |-> <<>>, wrote |-> FALSE, wreqs |-> <<>>,
     wheader |-> <<>>, before |-> <<>>, args |-> <<>>, old |-> NoFile]

NotWritten == [valid |-> FALSE, reqs |-> <<>>]

FileInit ==
    /\ fs \in {f \in [Paths -> InitialP \cup InitialQ] :
                  f[P] \in InitialP /\ f[Q] \in InitialQ}
    /\ rf \in {NoObject} \cup
              {obj \in {RequirementFile(fs, P, MaxDepth)} : obj.err = "ok"}
    /\ last = NoLast
    /\ written = [path \in Paths |-> NotWritten]
    /\ nops = 0

FileIdle ==
    /\ fs = [path \in Paths |-> NoFile]
    /\ rf = NoObject
    /\ last = NoLast
    /\ written = [path \in Paths |-> NotWritten]
    /\ nops = 0

\* write_requirements(filename, requirements, header=header), as a caller
\* with a set of built requirements calls it.
WriteRequirements(path, requirements, header) ==
    /\ nops < MaxOps
    /\ fs' = [fs EXCEPT ![path] = File(WriteContent(requirements, header))]
    /\ last' = [NoLast EXCEPT !.op = "write", !.path = path, !.wrote = TRUE,
                              !.wreqs = requirements, !.wheader = header]
    /\ written' = [written EXCEPT
                     ![path] = [valid |-> header = <<>>, reqs |-> requirements]]
    /\ nops' = nops + 1
    /\ UNCHANGED rf

\* RequirementFile(filename): the caller holds the new object, unless the
\* construction raised.
Construct(path) ==
    /\ nops < MaxOps
    /\ LET obj == RequirementFile(fs, path, MaxDepth)
       IN  /\ rf' = IF obj.err = "ok" THEN obj ELSE rf
           /\ last' = [NoLast EXCEPT
                         !.op = IF obj.err = "ok" THEN "load" ELSE "load_error",
                         !.path = path]
    /\ nops' = nops + 1
    /\ UNCHANGED <<fs, written>>

\* A slip in reload(): the requirements replaced, the other fields kept.
ReloadRequirementsOnly ==
    /\ nops < MaxOps
    /\ rf.err = "ok"
    /\ LET obj == RequirementFile(fs, rf.filename, MaxDepth)
           ok  == Exists(fs, rf.filename) /\ obj.err = "ok"
       IN  /\ rf' = IF ok THEN [rf EXCEPT !.requirements = obj.requirements]
                     ELSE rf
           /\ last' = [NoLast EXCEPT
                         !.op = IF ok THEN "reload" ELSE "reload_error",
                         !.path = rf.filename]
    /\ nops' = nops + 1
    /\ UNCHANGED <<fs, written>>

\* rf.reload(): parse() again, and the four fields replaced; parse() raises
\* for a file that does not exist.
Reload ==
    /\ nops < MaxOps
    /\ rf.err = "ok"
    /\ LET obj == RequirementFile(fs, rf.filename, MaxDepth)
           ok  == Exists(fs, rf.filename) /\ obj.err = "ok"
       IN  /\ rf' = IF ok THEN obj ELSE rf
           /\ last' = [NoLast EXCEPT
                         !.op = IF ok THEN "reload" ELSE "reload_error",
                         !.path = rf.filename]
    /\ nops' = nops + 1
    /\ UNCHANGED <<fs, written>>

\* `reqwire remove <specifiers>` on the tag whose source file is p: a file
\* that does not exist is skipped with a warning; else the file is loaded,
\* the names removed, and the file written back under a new header.
MainRemove(specifiers, timestamp) ==
    /\ nops < MaxOps
    /\ LET req_file == RequirementFile(fs, P, MaxDepth)
           kept     == RemoveAll(req_file.requirements, specifiers)
           header   == build_source_header(req_file.index_urls,
                                           req_file.nested_cfiles,
                                           req_file.nested_rfiles, timestamp)
       IN  IF ~Exists(fs, P)
           THEN /\ last' = [NoLast EXCEPT !.op = "remove_skipped", !.path = P,
                                          !.args = specifiers]
                /\ UNCHANGED <<fs, written>>
           ELSE IF req_file.err # "ok"
           THEN /\ last' = [NoLast EXCEPT !.op = "remove_error", !.path = P,
                                          !.args = specifiers]
                /\ UNCHANGED <<fs, written>>
           ELSE /\ fs' = [fs EXCEPT ![P] = File(WriteContent(kept, header))]
                /\ last' = [op |-> "remove", path |-> P, wrote |-> TRUE,
                            wreqs |-> kept, wheader |-> header,
                            before |-> req_file.requirements,
                            args |-> specifiers, old |-> fs[P]]
                /\ written' = [written EXCEPT ![P] = NotWritten]
    /\ nops' = nops + 1
    /\ UNCHANGED rf

FileNext ==
    \/ \E requirements \in Orderings(BuiltRequirements), header \in Headers :
          WriteRequirements(P, requirements, header)
    \/ \E path \in Paths : Construct(path)
    \/ Reload
    \/ \E specifiers \in RemoveArgs, timestamp \in Timestamps :
          MainRemove(specifiers, timestamp)


(***************************************************************************)
(* Equality and hashing of HashableInstallRequirement                      *)
(***************************************************************************)

\* The number of requirement objects a behaviour builds.
MaxHeap == 3

\* The lines requirements are built from, and the provenances they carry.
EqLines == {Line_a1, Line_a1s, Line_A1}
EqComesFrom == {NoText, LineComesFrom(P, 1, FALSE)}

EqInit ==
    /\ heap = <<>>
    /\ hlines = <<>>
    /\ hset = <<>>
    /\ hadded = {}

EqIdle == EqInit

\* HashableInstallRequirement.from_line(line), or the copy of a requirement
\* pip parsed from a file: a new object on the heap.
BuildFromLine(line, comes_from) ==
    /\ Len(heap) < MaxHeap
    /\ heap' = Append(heap, from_ireq(from_line(line, comes_from)))
    /\ hlines' = Append(hlines, line)
    /\ UNCHANGED <<hset, hadded>>

\* HashableInstallRequirement.from_ireq(heap[i]): a second object.
BuildFromIreq(i) ==
    /\ Len(heap) < MaxHeap
    /\ heap' = Append(heap, from_ireq(heap[i]))
    /\ hlines' = Append(hlines, hlines[i])
    /\ UNCHANGED <<hset, hadded>>

\* hset.add(heap[i])
SetAdd(i) ==
    /\ i \notin hadded
    /\ hset' = OrderedSetAdd(hset, heap[i])
    /\ hadded' = hadded \cup {i}
    /\ UNCHANGED <<heap, hlines>>

EqNext ==
    \/ \E line \in EqLines, comes_from \in EqComesFrom :
          BuildFromLine(line, comes_from)
    \/ \E i \in 1..Len(heap) : BuildFromIreq(i)
    \/ \E i \in 1..Len(heap) : SetAdd(i)


(***************************************************************************)
(* write_requirements step by step: atomicwrites.atomic_write              *)
(*                                                                         *)
(* The writer opens a temporary file in the target's directory, writes to  *)
(* it, and on leaving the `with` block renames it over the target; when    *)
(* the block raises, the temporary file is unlinked instead.  A reader of  *)
(* the target may run between any two steps.                               *)
(***************************************************************************)

\* The temporary file's name.
Tmp == <<"t">>

\* A writer that is not atomic: open(filename, 'w') on the target itself.
InPlaceFile(path) == path

\* The file the `with atomicwrites.atomic_write(filename, overwrite=True)`
\* block writes to.
WriterFile(path) == Tmp

\* The strings the block passes to f.write, in order.
RECURSIVE LineChunks(_)
LineChunks(reqs) ==
    IF reqs = <<>> THEN <<>>
    ELSE <<format_requirement(Head(reqs)), <<"\n">>>> \o LineChunks(Tail(reqs))

Chunks(requirements, header) ==
    (IF header # <<>> THEN <<header>> ELSE <<>>)
        \o LineChunks(SortedByStr(requirements))

NoJob ==
    [path |-> <<>>, handle |-> <<>>, chunks |-> <<>>, k |-> 0,
     old |-> NoFile, new |-> <<>>]

NotObserved == [seen |-> FALSE, file |-> NoFile]

AtomInit ==
    /\ disk \in {d \in [{P, Tmp} -> {NoFile, File(Line_a1 \o <<"\n">>)}] :
                    d[Tmp] = NoFile}
    /\ wpc = "idle"
    /\ wjob = NoJob
    /\ observed = NotObserved

AtomIdle ==
    /\ disk = [path \in {P, Tmp} |-> NoFile]
    /\ wpc = "idle"
    /\ wjob = NoJob
    /\ observed = NotObserved

\* Entering the `with` block: the file object is opened, empty.
AtomicBegin(requirements, header) ==
    /\ wpc \in {"idle", "done", "failed"}
    /\ LET handle == WriterFile(P)
       IN  /\ disk' = [disk EXCEPT ![handle] = File(<<>>)]
           /\ wjob' = [path |-> P, handle |-> handle,
                       chunks |-> Chunks(requirements, header), k |-> 0,
                       old |-> disk[P],
                       new |-> WriteContent(requirements, header)]
    /\ wpc' = "writing"
    /\ observed' = NotObserved

\* One f.write(...) of the block.
AtomicWrite ==
    /\ wpc = "writing"
    /\ wjob.k < Len(wjob.chunks)
    /\ disk' = [disk EXCEPT
                  ![wjob.handle] = File(@.data \o wjob.chunks[wjob.k + 1])]
    /\ wjob' = [wjob EXCEPT !.k = @ + 1]
    /\ UNCHANGED <<wpc, observed>>

\* Leaving the block normally: os.rename of the file written over the target.
AtomicCommit ==
    /\ wpc = "writing"
    /\ wjob.k = Len(wjob.chunks)
    /\ disk' = IF wjob.handle = wjob.path THEN disk
               ELSE [disk EXCEPT ![wjob.path] = disk[wjob.handle],
                                 ![wjob.handle] = NoFile]
    /\ wpc' = "done"
    /\ UNCHANGED <<wjob, observed>>

\* The block raises (a failed write, an interrupt): the rollback unlinks
\* the temporary file.
AtomicFail ==
    /\ wpc = "writing"
    /\ disk' = IF wjob.handle = wjob.path THEN disk
               ELSE [disk EXCEPT ![wjob.handle] = NoFile]
    /\ wpc' = "failed"
    /\ UNCHANGED <<wjob, observed>>

\* A concurrent reader opens and reads the target.
ReadTarget ==
    /\ wpc = "writing"
    /\ observed' = [seen |-> TRUE, file |-> disk[P]]
    /\ UNCHANGED <<disk, wpc, wjob>>

AtomNext ==
    \/ \E requirements \in Orderings(BuiltRequirements), header \in Headers :
          AtomicBegin(requirements, header)
    \/ AtomicWrite
    \/ AtomicCommit
    \/ AtomicFail
    \/ ReadTarget

(***************************************************************************)
(* get_canonical_name, line by line                                        *)
(***************************************************************************)

\* The number of lines of a listing page.
MaxLines == 2

Name_A == <<"A">>
Name_a == <<"a">>
Name_b == <<"b">>

\* The lines a listing page is made of: one anchor, or two on one line.
IndexLines ==
    { Anchor(Name_A), Anchor(Name_a), Anchor(Name_b),
      Anchor(Name_a) \o Anchor(Name_b),
      Anchor(Name_A) \o Anchor(Name_a) }

IndexPages == UNION {[1..n -> IndexLines] : n \in 0..MaxLines}

\* The index_urls argument: omitted, one index, or two in iteration order.
IndexUrlLists == {<<>>, <<Url_1>>, <<Url_1, PyPI_simple_url>>}

IndexServers == {PyPI_simple_url, Url_1}

NoResult == [status |-> "running", name |-> <<>>]

IndexInit ==
    /\ index_urls \in IndexUrlLists
    /\ search \in {Name_a, Name_A}
    /\ pages \in {pg \in [IndexServers -> IndexPages] :
                     \A u \in IndexServers :
                        u \notin Range(SearchedIndexes(index_urls))
                           => pg[u] = <<>>}
    /\ urlpos = 1
    /\ linepos = 0
    /\ parser = NewParser(search)
    /\ result = NoResult

IndexIdle ==
    /\ index_urls = <<>>
    /\ search = <<>>
    /\ pages = [u \in IndexServers |-> <<>>]
    /\ urlpos = 1
    /\ linepos = 0
    /\ parser = NewParser(<<>>)
    /\ result = NoResult

\* The page of the index URL the loop is at.
CurrentPage == pages[SearchedIndexes(index_urls)[urlpos]]

\* One iteration of `for line in response.iter_lines()`: the line is fed,
\* and the name last collected is returned if the parser is then in state
\* found_package_name.
FeedLine ==
    /\ result.status = "running"
    /\ linepos < Len(CurrentPage)
    /\ LET fed == Feed(parser, CurrentPage[linepos + 1])
       IN  /\ parser' = fed
           /\ result' = IF fed.state = "found_package_name"
                        THEN [status |-> "returned", name |-> Returned(fed)]
                        ELSE result
    /\ linepos' = linepos + 1
    /\ UNCHANGED <<pages, index_urls, search, urlpos>>

\* The lines of an index are exhausted: the next index URL, a new parser.
NextIndex ==
    /\ result.status = "running"
    /\ linepos = Len(CurrentPage)
    /\ urlpos < Len(SearchedIndexes(index_urls))
    /\ urlpos' = urlpos + 1
    /\ linepos' = 0
    /\ parser' = NewParser(search)
    /\ UNCHANGED <<pages, index_urls, search, result>>

\* The index URLs are exhausted: pip.exceptions.DistributionNotFound.
RaiseNotFound ==
    /\ result.status = "running"
    /\ linepos = Len(CurrentPage)
    /\ urlpos = Len(SearchedIndexes(index_urls))
    /\ result' = [status |-> "raised", name |-> <<>>]
    /\ UNCHANGED <<pages, index_urls, search, urlpos, linepos, parser>>

IndexNext ==
    \/ FeedLine
    \/ NextIndex
    \/ RaiseNotFound

(***************************************************************************)
(* resolve_specifier                                                       *)
(***************************************************************************)

\* The number of best-match lookups a behaviour makes.
MaxCalls == 2

\* The specifier lines resolve_specifier is called with.
ResolveLines == {Line_a, Line_a1, Line_A1, Line_age, Line_b}

\* What repository.find_best_match may return for a requirement: a pin of
\* its name to a version the index offers.
Candidates(ireq) ==
    {from_line(ireq.name \o <<"=", "=">> \o v, NoText) : v \in {<<"1">>, <<"2">>}}

\* The lookup finds no candidate (piptools.exceptions.NoCandidateFound).
NoCandidate == from_line(<<>>, NoText)

NoCall ==
    [specifier |-> <<>>, prereleases |-> FALSE,
     returned |-> from_line(<<>>, NoText), raised |-> FALSE,
     looked |-> FALSE, before |-> 0, unexpected |-> "none"]

ResInit ==
    /\ rcalls = <<>>
    /\ rlast = NoCall

ResIdle == ResInit

\* resolve_specifier(specifier, prereleases): the requirement of the line,
\* returned as it is or handed to repository.find_best_match, whose answer
\* `found` is returned, and whose NoCandidateFound (found = the requirement
\* of the empty line) propagates.
ResolveSpecifier(specifier, prereleases) ==
    LET ireq == from_line(specifier, NoText)
    IN  IF NeedsLookup(ireq)
        THEN /\ Len(rcalls) < MaxCalls
             /\ \E found \in Candidates(ireq) \cup {NoCandidate} :
                  /\ rcalls' = Append(rcalls,
                        [ireq |-> ireq, prereleases |-> prereleases,
                         found |-> found])
                  /\ rlast' = [specifier |-> specifier,
                               prereleases |-> prereleases,
                               returned |-> found,
                               raised |-> found = NoCandidate,
                               looked |-> TRUE,
                               before |-> Len(rcalls), unexpected |-> "none"]
        ELSE /\ rcalls' = rcalls
             /\ rlast' = [specifier |-> specifier, prereleases |-> prereleases,
                          returned |-> ireq, raised |-> FALSE,
                          looked |-> FALSE, before |-> Len(rcalls),
                          unexpected |-> "none"]

\* The parameters a call of resolve_specifier can name: its signature is
\* (specifier, prereleases=False, *args).
ResolveSpecifierParameters == {"specifier", "prereleases"}

\* The keywords callers write: tests/unit/helpers/test_requirements.py calls
\* resolve_specifier('reqwire', resolve_versions=False).
CallKeywords == {"prereleases", "resolve_versions"}

\* resolve_specifier(specifier, <keyword>=False): a keyword the signature
\* does not have makes the call raise TypeError before the body runs;
\* rlast.unexpected is that keyword.
ResolveSpecifierKeyword(specifier, keyword) ==
    IF keyword \in ResolveSpecifierParameters
    THEN ResolveSpecifier(specifier, FALSE)
    ELSE /\ rlast' = [NoCall EXCEPT !.specifier = specifier,
                                    !.raised = TRUE,
                                    !.unexpected = keyword,
                                    !.before = Len(rcalls)]
         /\ UNCHANGED rcalls

ResNext ==
    \/ \E specifier \in ResolveLines, prereleases \in BOOLEAN :
          ResolveSpecifier(specifier, prereleases)
    \/ \E specifier \in ResolveLines, keyword \in CallKeywords :
          ResolveSpecifierKeyword(specifier, keyword)

(***************************************************************************)
(* reqwire add (cli.main_add): the directory check, pip install, the index *)
(* URLs collected from the tag files that exist, then one call of          *)
(* extend_source_file per tag, in the order of the command line.           *)
(***************************************************************************)

\* src_dir / (tag_name + extension): the source file of a tag.
TagFile(tag_name) == Dir \o <<"/">> \o tag_name

\* The tags of the command line.
AddTags == {<<File_p>>, <<File_p, File_q>>, <<File_q, File_p>>}

\* The specifier arguments of `reqwire add`.
AddSpecifiers ==
    { <<Line_a>>, <<<<"A">>>>, <<Line_b>>, <<Line_a, Line_a>>,
      <<Line_a1, Line_a1>>, <<Line_a, Line_b>> }

\* What the tag files hold when the command begins.
AddInitialP == {NoFile, File(Line_a1 \o <<"\n">>)}
AddInitialQ ==
    { NoFile,
      File(Opt_extra_index_url \o <<" ">> \o Url_1 \o <<"\n">>
             \o Line_b \o <<"\n">>) }

\* The listing pages of the index servers: the public index lists A, the
\* extra index lists b.
AddListing ==
    [u \in IndexServers |->
        IF u = PyPI_simple_url THEN <<Anchor(Name_A)>> ELSE <<Anchor(Name_b)>>]

\* What find_best_match answers for each name at the time of one call of
\* extend_source_file: a pin of the name as the index spells it (A, b), or
\* no candidate.
BestAnswers ==
    { [n \in {Name_a, Name_b} |->
          [found |-> fa[n],
           ireq  |-> IF fa[n]
                     THEN from_line((IF n = Name_a THEN Name_A ELSE n)
                                       \o <<"=", "=", "1">>, NoText)
                     ELSE NoCandidate]] :
      fa \in [{Name_a, Name_b} -> BOOLEAN] }

\* A slip in the collection: a tag file contributes no index URL.
NoTagIndexUrls(files, filename) == {}

\* What one tag contributes to lookup_index_urls: nothing when its file is
\* absent, else the index_urls of the finder parse_requirements returns.
TagIndexUrls(files, filename) ==
    IF ~Exists(files, filename) THEN {}
    ELSE Range(PipParseFile(files, filename, FALSE,
                            <<PyPI_simple_url>>, MaxDepth).index_urls)

\* A slip in the error handling: the loop goes on after a failed tag.
ContinueAfterError(err, more) == IF more THEN "extend" ELSE "done"

\* Where main_add is after one call of extend_source_file: the try block
\* ends at the first exception; NoCandidateFound is caught and the command
\* aborted, any other exception leaves the command.
AfterExtend(err, more) ==
    IF err = "ok" THEN (IF more THEN "extend" ELSE "done")
    ELSE IF err = "NoCandidateFound" THEN "aborted"
    ELSE "crashed"

\* The ways a Python set of index URLs can be iterated.
IterationOrders(S) == {seq \in Orderings(S) : Len(seq) = Cardinality(S)}

\* main_add has not begun.
NoStart ==
    [initialised |-> FALSE, install |-> FALSE, ran |-> FALSE,
     installed |-> FALSE]

NoCommand ==
    [tags |-> <<>>, specifiers |-> <<>>, pin |-> TRUE, pre |-> FALSE,
     resolve_canonical_names |-> TRUE, resolve_versions |-> TRUE]

AddInit ==
    /\ afs \in {f \in [Paths -> AddInitialP \cup AddInitialQ] :
                   f[P] \in AddInitialP /\ f[Q] \in AddInitialQ}
    /\ afs0 = afs
    /\ acmd \in [tags : AddTags, specifiers : AddSpecifiers, pin : BOOLEAN,
                 pre : {FALSE}, resolve_canonical_names : BOOLEAN,
                 resolve_versions : BOOLEAN]
    /\ apc = "start"
    /\ ak = 1
    /\ alookup = {}
    /\ acalls = <<>>
    /\ astart = NoStart

AddIdle ==
    /\ astart = NoStart
    /\ afs = [path \in Paths |-> NoFile]
    /\ afs0 = afs
    /\ acmd = NoCommand
    /\ apc = "done"
    /\ ak = 1
    /\ alookup = {}
    /\ acalls = <<>>

\* A slip in pip_install: a failed installation does not stop the command.
IgnoreInstallFailure(initialised, install, installed) ==
    IF ~initialised THEN "aborted" ELSE "collect"

\* Where main_add is after its first statements: ctx.abort() when the
\* requirements directory is missing, and in pip_install when --install is
\* on and pip fails (sh.ErrorReturnCode).
StartOutcome(initialised, install, installed) ==
    IF ~initialised THEN "aborted"
    ELSE IF install /\ ~installed THEN "aborted"
    ELSE "collect"

\* main_add up to the collection: the directory check, then pip install
\* when --install is on; pip is run only past the directory check.
AddStart ==
    /\ apc = "start"
    /\ \E initialised \in BOOLEAN, install \in BOOLEAN, installed \in BOOLEAN :
         /\ installed => (initialised /\ install)
         /\ astart' = [initialised |-> initialised, install |-> install,
                       ran |-> initialised /\ install,
                       installed |-> installed]
         /\ apc' = StartOutcome(initialised, install, installed)
    /\ UNCHANGED <<afs, afs0, acmd, ak, alookup, acalls>>

\* One turn of the first loop over the tags: lookup_index_urls |=
\* set(finder.index_urls) for a tag whose file exists.
AddCollect ==
    /\ apc = "collect"
    /\ LET filename == TagFile(acmd.tags[ak])
       IN  alookup' = alookup \cup TagIndexUrls(afs, filename)
    /\ IF ak < Len(acmd.tags)
       THEN /\ ak' = ak + 1
            /\ apc' = apc
       ELSE /\ ak' = 1
            /\ apc' = "extend"
    /\ UNCHANGED <<afs, afs0, acmd, acalls, astart>>

\* The end of one turn of the second loop: the file written unless the
\* call raised, the call recorded, the loop left at an exception.
AddExtended(filename, best, r) ==
    /\ afs' = IF r.err = "ok"
              THEN [afs EXCEPT ![filename] = File(r.content)]
              ELSE afs
    /\ acalls' = Append(acalls,
           [tag |-> acmd.tags[ak], lookup |-> alookup, err |-> r.err,
            built |-> r.built, body |-> r.body, content |-> r.content,
            before |-> afs[filename], best |-> best])
    /\ apc' = AfterExtend(r.err, ak < Len(acmd.tags))

\* One turn of the second loop: extend_source_file for the tag, with the
\* answers the network gives during the call and the order the set of
\* index URLs is iterated in; the time of the header is the number of the
\* call.
AddExtend ==
    /\ apc = "extend"
    /\ \E best \in BestAnswers, urls \in IterationOrders(alookup) :
         AddExtended(TagFile(acmd.tags[ak]), best,
                     extend_source_file(afs, TagFile(acmd.tags[ak]),
                                        acmd.specifiers, urls, acmd.pre,
                                        acmd.resolve_canonical_names,
                                        acmd.resolve_versions, best,
                                        AddListing, Len(acalls) + 1))
    /\ ak' = IF ak < Len(acmd.tags) THEN ak + 1 ELSE ak
    /\ UNCHANGED <<afs0, acmd, alookup, astart>>

AddNext ==
    \/ AddStart
    \/ AddCollect
    \/ AddExtend

(***************************************************************************)
(* Two invocations of reqwire on one tag file.  Each reads the file,       *)
(* computes its output, and writes it with write_requirements: a           *)
(* temporary file of its own, written string by string, then renamed over  *)
(* the tag file.  The steps of the two interleave in any order.            *)
(***************************************************************************)

Invocations == {1, 2}

\* The commands run: `remove a`, `remove b`, and `add c` without
\* installation or resolution.
RaceJobs ==
    { [kind |-> "remove", specifiers |-> <<Line_a>>],
      [kind |-> "remove", specifiers |-> <<Line_b>>],
      [kind |-> "add", specifiers |-> <<<<"c">>>>] }

\* A writer whose temporary file has one fixed name.
SharedTemp(i) == Tmp

\* The temporary file atomicwrites creates for an invocation: a fresh name
\* in the directory of the target.
TempFile(i) == Dir \o <<"/">> \o Tmp \o ToStr(i)

RaceFiles == {P, Tmp} \cup {TempFile(i) : i \in Invocations}

\* The lookups `add` makes without resolution: none answer.
NoAnswers ==
    [n \in {Name_a, Name_b} |-> [found |-> FALSE, ireq |-> NoCandidate]]

\* What `add` hands to write_requirements.
Added(r) == [requirements |-> r.requirements, header |-> r.header]

\* main_remove once the file is parsed: the requirements kept and the
\* header of the rewritten file.
Removed(req_file, specifiers, timestamp) ==
    [requirements |-> RemoveAll(req_file.requirements, specifiers),
     header |-> build_source_header(req_file.index_urls,
                                    req_file.nested_cfiles,
                                    req_file.nested_rfiles, timestamp)]

\* What an invocation computes from the files it reads: the header and the
\* requirements it will write.
Computed(files, job, timestamp) ==
    IF job.kind = "remove"
    THEN Removed(RequirementFile(files, P, MaxDepth), job.specifiers,
                 timestamp)
    ELSE Added(extend_source_file(files, P, job.specifiers, <<>>, FALSE,
                                  FALSE, FALSE, NoAnswers, AddListing,
                                  timestamp))

NoProcess ==
    [job |-> [kind |-> "none", specifiers |-> <<>>], pc |-> "done",
     chunks |-> <<>>, k |-> 0, out |-> <<>>, read |-> NoFile]

RaceInit ==
    /\ cold = File(Line_a1 \o <<"\n">> \o Line_b \o <<"\n">>)
    /\ cdisk = [path \in RaceFiles |-> IF path = P THEN cold ELSE NoFile]
    /\ cproc \in {pr \in [Invocations -> {[NoProcess EXCEPT !.job = j,
                                                           !.pc = "start"] :
                                            j \in RaceJobs}] : TRUE}
    /\ corder = <<>>

RaceIdle ==
    /\ cold = NoFile
    /\ cdisk = [path \in RaceFiles |-> NoFile]
    /\ cproc = [i \in Invocations |-> NoProcess]
    /\ corder = <<>>

\* The output of an invocation: the strings it will write, one by one and
\* as a whole.
Output(i, file, c) ==
    [cproc[i] EXCEPT !.pc = "computed",
                     !.read = file,
                     !.chunks = Chunks(c.requirements, c.header),
                     !.out = WriteContent(c.requirements, c.header)]

\* The invocation reads the tag file and computes what it will write; the
\* time of its header is its own.
RaceRead(i) ==
    /\ cproc[i].pc = "start"
    /\ cproc' = [cproc EXCEPT
                   ![i] = Output(i, cdisk[P],
                                 Computed(cdisk, cproc[i].job, i))]
    /\ UNCHANGED <<cdisk, corder, cold>>

\* Entering the atomic_write block: the temporary file is created, empty.
RaceOpen(i) ==
    /\ cproc[i].pc = "computed"
    /\ cdisk' = [cdisk EXCEPT ![TempFile(i)] = File(<<>>)]
    /\ cproc' = [cproc EXCEPT ![i] = [@ EXCEPT !.pc = "writing"]]
    /\ UNCHANGED <<corder, cold>>

\* One f.write(...) to the temporary file.
RaceWrite(i) ==
    /\ cproc[i].pc = "writing"
    /\ cproc[i].k < Len(cproc[i].chunks)
    /\ cdisk' = [cdisk EXCEPT
                   ![TempFile(i)] =
                       File(@.data \o cproc[i].chunks[cproc[i].k + 1])]
    /\ cproc' = [cproc EXCEPT ![i] = [@ EXCEPT !.k = @ + 1]]
    /\ UNCHANGED <<corder, cold>>

\* Leaving the block: os.rename of the temporary file over the tag file,
\* which fails when the temporary file is gone.
RaceReplace(i) ==
    /\ cproc[i].pc = "writing"
    /\ cproc[i].k = Len(cproc[i].chunks)
    /\ IF cdisk[TempFile(i)].exists
       THEN /\ cdisk' = [cdisk EXCEPT ![P] = cdisk[TempFile(i)],
                                      ![TempFile(i)] = NoFile]
            /\ cproc' = [cproc EXCEPT ![i] = [@ EXCEPT !.pc = "done"]]
            /\ corder' = Append(corder, i)
       ELSE /\ cproc' = [cproc EXCEPT ![i] = [@ EXCEPT !.pc = "failed"]]
            /\ UNCHANGED <<cdisk, corder>>
    /\ UNCHANGED cold

RaceNext ==
    \E i \in Invocations :
        \/ RaceRead(i)
        \/ RaceOpen(i)
        \/ RaceWrite(i)
        \/ RaceReplace(i)

(***************************************************************************)
(* PyPiHtmlParser under any sequence of events: html.parser calls          *)
(* handle_starttag, handle_endtag and handle_data in the order of the      *)
(* markup fed, and get_canonical_name looks at the state after a feed.     *)
(***************************************************************************)

MaxEvents == 6

\* The tags and the character data of the markup.
EventTags == {<<"a">>, <<"b">>}
EventData == {Name_a, Name_A, Name_b}

NotReturned == [status |-> "running", name |-> <<>>]

ParserInit ==
    /\ hparser \in {NewParser(package_name) : package_name \in {Name_a, Name_A}}
    /\ hevents = 0
    /\ hreturned = NotReturned

ParserIdle ==
    /\ hparser = NewParser(<<>>)
    /\ hevents = 0
    /\ hreturned = NotReturned

\* html.parser meets a start tag.
StartTagEvent(tag) ==
    /\ hreturned.status = "running"
    /\ hevents < MaxEvents
    /\ hparser' = handle_starttag(hparser, tag)
    /\ hevents' = hevents + 1
    /\ UNCHANGED hreturned

\* html.parser meets an end tag.
EndTagEvent(tag) ==
    /\ hreturned.status = "running"
    /\ hevents < MaxEvents
    /\ hparser' = handle_endtag(hparser, tag)
    /\ hevents' = hevents + 1
    /\ UNCHANGED hreturned

\* html.parser meets character data.
DataEvent(data) ==
    /\ hreturned.status = "running"
    /\ hevents < MaxEvents
    /\ hparser' = handle_data(hparser, data)
    /\ hevents' = hevents + 1
    /\ UNCHANGED hreturned

\* The feed of a line is over and get_canonical_name finds the parser in
\* state found_package_name: it returns parser.collected_packages[-1].
ReturnFound ==
    /\ hreturned.status = "running"
    /\ hparser.state = "found_package_name"
    /\ hreturned' = [status |-> "returned", name |-> Returned(hparser)]
    /\ UNCHANGED <<hparser, hevents>>

ParserNext ==
    \/ \E tag \in EventTags : StartTagEvent(tag)
    \/ \E tag \in EventTags : EndTagEvent(tag)
    \/ \E data \in EventData : DataEvent(data)
    \/ ReturnFound

(***************************************************************************)
(* build_ireq_set statement by statement.  The requirements are objects    *)
(* of a heap: update_ireq_name changes an object in place, and the ordered *)
(* set holds references, each filed under the hash the object had when it  *)
(* was added.                                                              *)
(***************************************************************************)

\* The arguments of the call: the specifiers, the index URLs and the two
\* switches.
BuildSpecifiers ==
    { <<Line_a>>, <<Line_a, <<"A">>>>, <<Line_a, Line_a1>>, <<Line_b, Line_a>> }

BuildIndexUrls == {<<>>, <<Url_1, PyPI_simple_url>>}

NoArguments ==
    [specifiers |-> <<>>, index_urls |-> <<>>, prereleases |-> FALSE,
     resolve_canonical_names |-> TRUE, resolve_versions |-> TRUE]

\* A slip in the order of the loop body: the requirement is added first and
\* renamed afterwards.
AddBeforeRename(statement, resolve_canonical_names) ==
    CASE statement = "resolve"   -> "add"
      [] statement = "add"       -> IF resolve_canonical_names
                                    THEN "canonical" ELSE "resolve"
      [] statement = "canonical" -> "resolve"

\* The statement that follows a statement of the loop body: the requirement
\* is made, renamed if resolve_canonical_names is on, then added; "resolve"
\* is the first statement of the next iteration.
NextStatement(statement, resolve_canonical_names) ==
    CASE statement = "resolve"   -> IF resolve_canonical_names
                                    THEN "canonical" ELSE "add"
      [] statement = "canonical" -> "add"
      [] statement = "add"       -> "resolve"

BuildInit ==
    /\ bargs \in [specifiers : {SortedStrings(l) : l \in BuildSpecifiers},
                  index_urls : BuildIndexUrls, prereleases : {FALSE},
                  resolve_canonical_names : BOOLEAN,
                  resolve_versions : BOOLEAN]
    /\ bpc = "resolve"
    /\ bi = 1
    /\ bheap = <<>>
    /\ bcur = 0
    /\ bset = <<>>

BuildIdle ==
    /\ bargs = NoArguments
    /\ bpc = "returned"
    /\ bi = 1
    /\ bheap = <<>>
    /\ bcur = 0
    /\ bset = <<>>

\* The position after a statement: the loop ends after the last specifier.
Advance(following) ==
    /\ bpc' = IF following = "resolve" /\ bi = Len(bargs.specifiers)
              THEN "returned" ELSE following
    /\ bi' = IF following = "resolve" THEN bi + 1 ELSE bi

\* ireq = resolve_specifier(...) or HashableInstallRequirement.from_line(...):
\* a new object, or NoCandidateFound.
BuildResolve ==
    /\ bpc = "resolve"
    /\ \E best \in BestAnswers :
         LET made == IF bargs.resolve_versions
                     THEN resolve_specifier(best, bargs.specifiers[bi],
                                            bargs.prereleases)
                     ELSE [ireq |-> from_line(bargs.specifiers[bi], NoText),
                           looked |-> FALSE, raised |-> FALSE]
         IN  IF made.raised
             THEN /\ bpc' = "raised"
                  /\ UNCHANGED <<bi, bheap, bcur>>
             ELSE /\ bheap' = Append(bheap,
                                 [ireq |-> made.ireq,
                                  hashable |-> ~bargs.resolve_versions])
                  /\ bcur' = Len(bheap) + 1
                  /\ Advance(NextStatement("resolve",
                                           bargs.resolve_canonical_names))
    /\ UNCHANGED <<bargs, bset>>

\* The object renamed to the canonical name found, or DistributionNotFound.
Renamed(found) ==
    IF found.status = "raised"
    THEN /\ bpc' = "raised"
         /\ UNCHANGED <<bi, bheap>>
    ELSE /\ bheap' = [bheap EXCEPT
                        ![bcur].ireq = update_ireq_name(@, found.name)]
         /\ Advance(NextStatement("canonical", bargs.resolve_canonical_names))

\* canonical_name = get_canonical_name(...); update_ireq_name(ireq, ...):
\* the object is changed in place.
BuildCanonical ==
    /\ bpc = "canonical"
    /\ Renamed(get_canonical_name(AddListing,
                                  name_from_req(bheap[bcur].ireq),
                                  bargs.index_urls))
    /\ UNCHANGED <<bargs, bcur, bset>>

\* Whether the ordered set finds an object: a member filed under the same
\* hash that compares equal to it now.  pip.req.InstallRequirement objects
\* hash and compare by identity.
SetFinds(x) ==
    \E n \in DOMAIN bset :
        \/ bset[n].id = x
        \/ /\ bheap[x].hashable
           /\ bheap[bset[n].id].hashable
           /\ bset[n].key = Str(bheap[x].ireq)
           /\ Eq(bheap[bset[n].id].ireq, bheap[x].ireq)

\* install_requirements.add(ireq)
BuildAdd ==
    /\ bpc = "add"
    /\ bset' = IF SetFinds(bcur) THEN bset
               ELSE Append(bset, [id |-> bcur, key |-> Str(bheap[bcur].ireq)])
    /\ Advance(NextStatement("add", bargs.resolve_canonical_names))
    /\ UNCHANGED <<bargs, bheap, bcur>>

BuildNext ==
    \/ BuildResolve
    \/ BuildCanonical
    \/ BuildAdd

(***************************************************************************)
(* The construction of a RequirementFile call by call: __init__ reloads a  *)
(* file that exists; parse calls parse_nested_files, pip's parser, and     *)
(* parse_nested_files again; parse_nested_files constructs a               *)
(* RequirementFile for every -r and -c line it reads.  nstack is the       *)
(* stack of the constructors running, the innermost last.                  *)
(***************************************************************************)

\* The depth of calls at which the interpreter raises its recursion error.
RecursionLimit == 4

\* What the two files hold: an include of the other file or of the file
\* itself, by -r or -c, with or without requirement lines.
ConstructContents(self, other) ==
    { NoFile,
      File(Line_a1 \o <<"\n">>),
      File(Opt_r \o <<" ">> \o other \o <<"\n">> \o Line_b \o <<"\n">>),
      File(<<"#", "m", "\n">> \o Opt_c \o <<" ">> \o other \o <<"\n">>),
      File(Opt_r \o <<" ">> \o self \o <<"\n">>),
      File(Line_a1 \o <<"\n">> \o Opt_r \o <<" ">> \o other \o <<"\n">>
             \o Opt_c \o <<" ">> \o other \o <<"\n">>) }

\* A constructor that has just been called.
Called(filename) == [filename |-> filename, pc |-> "init", call |-> 0, line |-> 0]

Running == [status |-> "running", err |-> "ok"]

\* What the scan of parse_nested_files makes of each line of a file, and
\* how pip's parse of the file ends.  The files do not change while the
\* constructors run, so every scan and every parse of a file finds the same.
Scanned(files) ==
    [path \in Paths |->
        [refs |-> IF Exists(files, path)
                  THEN [n \in DOMAIN SplitLines(files[path].data) |->
                           NestedRef(SplitLines(files[path].data)[n])]
                  ELSE <<>>,
         err  |-> PipParseFile(files, path, FALSE, <<PyPI_simple_url>>,
                               MaxDepth).err]]

ConstructInit ==
    /\ nfiles \in {f \in [Paths -> ConstructContents(File_p, File_q)
                                      \cup ConstructContents(File_q, File_p)] :
                      /\ f[P] \in ConstructContents(File_p, File_q)
                      /\ f[Q] \in ConstructContents(File_q, File_p)}
    /\ nscanned = Scanned(nfiles)
    /\ nstack = <<Called(P)>>
    /\ nstatus = Running

ConstructIdle ==
    /\ nfiles = [path \in Paths |-> NoFile]
    /\ nscanned = [path \in Paths |-> [refs |-> <<>>, err |-> "enoent"]]
    /\ nstack = <<>>
    /\ nstatus = [status |-> "returned", err |-> "ok"]

\* The innermost constructor and the lines of its file, as the scan takes
\* them.
Innermost == nstack[Len(nstack)]
InnermostLines == nscanned[Innermost.filename].refs

\* The innermost constructor returns to its caller; the construction is
\* over when it was the outermost.
ReturnToCaller ==
    /\ nstack' = SubSeq(nstack, 1, Len(nstack) - 1)
    /\ nstatus' = IF Len(nstack) = 1
                  THEN [status |-> "returned", err |-> "ok"] ELSE nstatus

\* The innermost constructor goes on at another place.
GoOn(pc, call, line) ==
    nstack' = [nstack EXCEPT ![Len(nstack)] =
                  [filename |-> Innermost.filename, pc |-> pc,
                   call |-> call, line |-> line]]

\* __init__: reload() if the file exists, else the empty object.
EnterConstructor ==
    /\ nstatus.status = "running"
    /\ Innermost.pc = "init"
    /\ IF Exists(nfiles, Innermost.filename)
       THEN /\ GoOn("nested", 1, 0)
            /\ UNCHANGED nstatus
       ELSE ReturnToCaller
    /\ UNCHANGED <<nfiles, nscanned>>

\* The line read is an include: self.__class__(str(filename)) is called,
\* one call deeper.
CallNested(ref) ==
    IF Len(nstack) < RecursionLimit
    THEN /\ nstack' = Append([nstack EXCEPT ![Len(nstack)].line = @ + 1],
                             Called(NestedPath(Innermost.filename, ref.ref)))
         /\ UNCHANGED nstatus
    ELSE /\ nstatus' = [status |-> "raised", err |-> "recursion"]
         /\ UNCHANGED nstack

\* One turn of the loop of parse_nested_files over the lines of the file.
NestedLine ==
    /\ nstatus.status = "running"
    /\ Innermost.pc = "nested"
    /\ Innermost.line < Len(InnermostLines)
    /\ IF InnermostLines[Innermost.line + 1].kind = "none"
       THEN /\ GoOn("nested", Innermost.call, Innermost.line + 1)
            /\ UNCHANGED nstatus
       ELSE CallNested(InnermostLines[Innermost.line + 1])
    /\ UNCHANGED <<nfiles, nscanned>>

\* parse_nested_files returns: after the first call parse goes on to pip's
\* parser, after the second parse, reload and __init__ return.
NestedEnd ==
    /\ nstatus.status = "running"
    /\ Innermost.pc = "nested"
    /\ Innermost.line = Len(InnermostLines)
    /\ IF Innermost.call = 1
       THEN /\ GoOn("pip", 1, 0)
            /\ UNCHANGED nstatus
       ELSE ReturnToCaller
    /\ UNCHANGED <<nfiles, nscanned>>

\* What follows pip's parse of the file: its error leaves every constructor
\* running, else parse_nested_files is called a second time.
Parsed(err) ==
    IF err = "ok"
    THEN /\ GoOn("nested", 2, 0)
         /\ UNCHANGED nstatus
    ELSE /\ nstatus' = [status |-> "raised", err |-> err]
         /\ UNCHANGED nstack

\* pip.req.parse_requirements(str(self.filename), ...) and the ordered set
\* made of its requirements.
PipParse ==
    /\ nstatus.status = "running"
    /\ Innermost.pc = "pip"
    /\ Parsed(nscanned[Innermost.filename].err)
    /\ UNCHANGED <<nfiles, nscanned>>

ConstructNext ==
    \/ EnterConstructor
    \/ NestedLine
    \/ NestedEnd
    \/ PipParse

(***************************************************************************)
(* Specifications                                                          *)
(***************************************************************************)

\* Requirements files: write, load, reload, remove.
Init ==
    FileInit /\ EqIdle /\ AtomIdle /\ IndexIdle /\ ResIdle /\ AddIdle
        /\ RaceIdle /\ ParserIdle /\ BuildIdle /\ ConstructIdle
Next ==
    FileNext
        /\ UNCHANGED <<eqVars, atomVars, indexVars, resVars, addVars, raceVars,
                       parserVars, buildVars, constructVars>>
Spec == Init /\ [][Next]_vars

\* Equality and hashing.
InitEq ==
    EqInit /\ FileIdle /\ AtomIdle /\ IndexIdle /\ ResIdle /\ AddIdle
        /\ RaceIdle /\ ParserIdle /\ BuildIdle /\ ConstructIdle
NextEq ==
    EqNext
        /\ UNCHANGED <<fileVars, atomVars, indexVars, resVars, addVars,
                       raceVars, parserVars, buildVars, constructVars>>
SpecEq == InitEq /\ [][NextEq]_vars

\* The atomic write with a concurrent reader.
InitAtomic ==
    AtomInit /\ FileIdle /\ EqIdle /\ IndexIdle /\ ResIdle /\ AddIdle
        /\ RaceIdle /\ ParserIdle /\ BuildIdle /\ ConstructIdle
NextAtomic ==
    AtomNext
        /\ UNCHANGED <<fileVars, eqVars, indexVars, resVars, addVars, raceVars,
                       parserVars, buildVars, constructVars>>
SpecAtomic == InitAtomic /\ [][NextAtomic]_vars

\* The canonical-name lookup.
InitIndex ==
    IndexInit /\ FileIdle /\ EqIdle /\ AtomIdle /\ ResIdle /\ AddIdle
        /\ RaceIdle /\ ParserIdle /\ BuildIdle /\ ConstructIdle
NextIndexSpec ==
    IndexNext
        /\ UNCHANGED <<fileVars, eqVars, atomVars, resVars, addVars, raceVars,
                       parserVars, buildVars, constructVars>>
SpecIndex == InitIndex /\ [][NextIndexSpec]_vars

\* The specifier resolver.
InitResolve ==
    ResInit /\ FileIdle /\ EqIdle /\ AtomIdle /\ IndexIdle /\ AddIdle
        /\ RaceIdle /\ ParserIdle /\ BuildIdle /\ ConstructIdle
NextResolve ==
    ResNext
        /\ UNCHANGED <<fileVars, eqVars, atomVars, indexVars, addVars,
                       raceVars, parserVars, buildVars, constructVars>>
SpecResolve == InitResolve /\ [][NextResolve]_vars

\* reqwire add over one or two tags.
InitAdd ==
    AddInit /\ FileIdle /\ EqIdle /\ AtomIdle /\ IndexIdle /\ ResIdle
        /\ RaceIdle /\ ParserIdle /\ BuildIdle /\ ConstructIdle
NextAdd ==
    AddNext
        /\ UNCHANGED <<fileVars, eqVars, atomVars, indexVars, resVars,
                       raceVars, parserVars, buildVars, constructVars>>
SpecAdd == InitAdd /\ [][NextAdd]_vars

\* Two invocations on one tag file.
InitRace ==
    RaceInit /\ FileIdle /\ EqIdle /\ AtomIdle /\ IndexIdle /\ ResIdle
        /\ AddIdle /\ ParserIdle /\ BuildIdle /\ ConstructIdle
NextRace ==
    RaceNext
        /\ UNCHANGED <<fileVars, eqVars, atomVars, indexVars, resVars, addVars,
                       parserVars, buildVars, constructVars>>
SpecRace == InitRace /\ [][NextRace]_vars

\* The events of the index page parser.
InitParser ==
    ParserInit /\ FileIdle /\ EqIdle /\ AtomIdle /\ IndexIdle /\ ResIdle
        /\ AddIdle /\ RaceIdle /\ BuildIdle /\ ConstructIdle
NextParser ==
    ParserNext
        /\ UNCHANGED <<fileVars, eqVars, atomVars, indexVars, resVars, addVars,
                       raceVars, buildVars, constructVars>>
SpecParser == InitParser /\ [][NextParser]_vars

\* The loop of build_ireq_set, statement by statement.
InitBuild ==
    BuildInit /\ FileIdle /\ EqIdle /\ AtomIdle /\ IndexIdle /\ ResIdle
        /\ AddIdle /\ RaceIdle /\ ParserIdle /\ ConstructIdle
NextBuild ==
    BuildNext
        /\ UNCHANGED <<fileVars, eqVars, atomVars, indexVars, resVars, addVars,
                       raceVars, parserVars, constructVars>>
SpecBuild == InitBuild /\ [][NextBuild]_vars

\* The construction of a RequirementFile, call by call.
InitConstruct ==
    ConstructInit /\ FileIdle /\ EqIdle /\ AtomIdle /\ IndexIdle
        /\ ResIdle /\ AddIdle /\ RaceIdle /\ ParserIdle /\ BuildIdle
NextConstruct ==
    ConstructNext
        /\ UNCHANGED <<fileVars, eqVars, atomVars, indexVars, resVars, addVars,
                       raceVars, parserVars, buildVars>>
SpecConstruct == InitConstruct /\ [][NextConstruct]_vars

\* The construction under the scheduling of one thread: a call that can
\* take its next step takes it.
LiveConstruct == SpecConstruct /\ WF_vars(NextConstruct)


(***************************************************************************)
(* Properties of equality and hashing (SpecEq)                             *)
(***************************************************************************)

\* C1: two HashableInstallRequirement objects are equal exactly when their
\* string renderings are equal, equal objects have the same hash, and
\* objects that render identically are one member of a set.
C1_EqualityIsRendering ==
    /\ \A i, j \in 1..Len(heap) :
          /\ Eq(heap[i], heap[j]) <=> Str(heap[i]) = Str(heap[j])
          /\ Eq(heap[i], heap[j]) => Hash(heap[i]) = Hash(heap[j])
    /\ \A i, j \in 1..Len(hset) : Str(hset[i]) = Str(hset[j]) => i = j
    /\ \A i \in hadded : \E k \in 1..Len(hset) : Str(hset[k]) = Str(heap[i])

\* Two objects built from different lines render identically, both were
\* added, and the set has one member.
C1_Witness ==
    \E i, j \in hadded :
        /\ hlines[i] # hlines[j]
        /\ Str(heap[i]) = Str(heap[j])
        /\ Len(hset) = 1

(***************************************************************************)
(* Properties of requirement files (Spec)                                  *)
(***************************************************************************)

\* The lines of a file that pip reads as requirements, by line number.
RequirementLineNumbers(files, path) ==
    LET lines == SplitLines(files[path].data)
    IN  {n \in 1..Len(lines) :
            LineKind(StripComment(Tokens(lines[n]))) = "requirement"}

\* The object rf is the outcome of the last operation, a parse of its file.
JustParsed == last.op \in {"load", "reload"} /\ last.path = rf.filename

\* C2 as the specification states it: after a parse, the parent's set has
\* no specifier of a -r nested file's set, and a specifier X that the nested
\* file declares and the parent contains textually is not in the parent's
\* set.
C2_NoNestedSpecifierText ==
    JustParsed =>
        \A k \in 1..Len(rf.nested_rfiles) :
            \A x \in Range(rf.requirements) :
                \A y \in Range(rf.nested_rfiles[k].requirements) :
                    /\ ~Eq(x, y)
                    /\ ReqStr(x) # ReqStr(y)

\* C2, amended: after a parse, no member of the parent's set is equal, by
\* its rendering with the provenance, to a member of a -r nested file's set;
\* every requirement line of the parent's own text is in the parent's set
\* with the parent's provenance, whatever the nested files declare.
C2_NoNestedSpecifierRendering ==
    JustParsed =>
        /\ \A k \in 1..Len(rf.nested_rfiles) :
              \A x \in Range(rf.requirements) :
                  ~SetContains(rf.nested_rfiles[k].requirements, x)
        /\ \A n \in RequirementLineNumbers(fs, rf.filename) :
              \E x \in Range(rf.requirements) :
                  x.comes_from = LineComesFrom(rf.filename, n, FALSE)

\* A parent was parsed whose -r nested file declares a specifier that the
\* parent's text contains too.
C2_Witness ==
    /\ JustParsed
    /\ \E k \in 1..Len(rf.nested_rfiles) :
          \E x \in Range(rf.requirements) :
              \E y \in Range(rf.nested_rfiles[k].requirements) :
                  ReqStr(x) = ReqStr(y)

\* The sequences that enumerate the set S once each.
Enumerations(S) ==
    {f \in [1..Cardinality(S) -> S] : \A i, j \in DOMAIN f : f[i] = f[j] => i = j}

\* C3: the file written is the header verbatim, then one line per specifier
\* in ascending order of the rendered strings, whatever the order the
\* specifiers were given in; writing the canonical order again is
\* byte-identical.
C3_CanonicalContent ==
    last.wrote =>
        /\ \E order \in Enumerations(Range(last.wreqs)) :
              /\ \A i, j \in DOMAIN order :
                    i < j => StrLess(Str(order[i]), Str(order[j]))
              /\ fs[last.path] = File(last.wheader \o FormatLines(order))
        /\ \A order \in Enumerations(Range(last.wreqs)) :
              File(WriteContent(order, last.wheader)) = fs[last.path]

\* A file was written under a header from specifiers given out of order.
C3_Witness ==
    /\ last.op = "write"
    /\ last.wheader # <<>>
    /\ \E i, j \in DOMAIN last.wreqs :
          i < j /\ StrLess(Str(last.wreqs[j]), Str(last.wreqs[i]))

\* The file at the path of the last operation was written without a header
\* from the set written[path].reqs and has now been read back into rf.
ReadBack ==
    /\ last.op = "load"
    /\ written[last.path].valid
    /\ rf.filename = last.path

\* C4 as the specification states it: the set read back from a file written
\* without a header equals the set written, under rendering equality.
C4_RoundTripEqual ==
    ReadBack =>
        /\ \A x \in Range(rf.requirements) :
              SetContains(written[last.path].reqs, x)
        /\ \A y \in Range(written[last.path].reqs) :
              SetContains(rf.requirements, y)

\* C4, amended: the set read back has the same written lines as the set
\* written (the requirement texts in lower case); the members differ from
\* the ones written by the provenance of the file and by the case.
C4_RoundTripLines ==
    ReadBack =>
        {format_requirement(x) : x \in Range(rf.requirements)}
            = {format_requirement(y) : y \in Range(written[last.path].reqs)}

\* A set of two or more specifiers, one with an upper-case name, was
\* written and read back.
C4_Witness ==
    /\ ReadBack
    /\ Len(written[last.path].reqs) >= 2
    /\ Len(rf.requirements) >= 1
    /\ \E y \in Range(written[last.path].reqs) : y.name # Lower(y.name)

\* C10 as the specification states it: after `remove` of the names N, the
\* specifiers the file is written from are the previous own specifiers whose
\* name is not in N, every specifier of a name in N being gone.
C10_RemovedAllOfName ==
    last.op = "remove" =>
        LET names == {name_from_req(from_line(s, NoText)) :
                          s \in Range(last.args)}
            stay  == {y \in Range(last.before) : name_from_req(y) \notin names}
        IN  Range(last.wreqs) = stay

(***************************************************************************)
(* Properties of the writer's steps (SpecAtomic)                           *)
(***************************************************************************)

\* C5: the target holds the complete previous content until the write
\* commits and the complete new content from then on; a reader during the
\* write sees one of the two; a failed write leaves the previous content.
C5_AtomicReplace ==
    /\ wpc \in {"writing", "failed"} => disk[P] = wjob.old
    /\ wpc = "done" => disk[P] = File(wjob.new)
    /\ observed.seen => observed.file \in {wjob.old, File(wjob.new)}

\* A write over an existing file failed after part of the content was
\* written, and a reader had read the target meanwhile.
C5_Witness ==
    /\ wpc = "failed"
    /\ wjob.k >= 1
    /\ wjob.k < Len(wjob.chunks)
    /\ wjob.old.exists
    /\ File(wjob.new) # wjob.old
    /\ observed.seen


(***************************************************************************)
(* Properties of the canonical-name lookup (SpecIndex)                     *)
(***************************************************************************)

\* The anchor texts of a sequence of events, in document order: the
\* character data that directly follows an <a> start tag.
AnchorTexts(events) ==
    LET IsText(i) == /\ i > 1
                     /\ events[i].kind = "data"
                     /\ events[i - 1] = StartTag("a")
        F[i \in 0..Len(events)] ==
            IF i = 0 THEN <<>>
            ELSE IF IsText(i) THEN Append(F[i - 1], events[i].arg)
            ELSE F[i - 1]
    IN  F[Len(events)]

\* The anchor texts of a page that match the name case-insensitively.
MatchingAnchors(page, name) ==
    LET Matches(text) == Lower(text) = Lower(name)
    IN  SelectSeq(AnchorTexts(Concat(page)), Matches)

\* The index lists a match of the name searched.
ListsMatch(url) == MatchingAnchors(pages[url], search) # <<>>

\* The last anchor of the line matches the name searched.
LastAnchorMatches(line) ==
    LET texts == AnchorTexts(line)
    IN  texts # <<>> /\ Lower(texts[Len(texts)]) = Lower(search)

\* C6 as the specification states it: the name returned is the last anchor
\* text of the page, in document order, that matches case-insensitively.
C6_LastMatchOfPage ==
    result.status = "returned" =>
        LET matching == MatchingAnchors(CurrentPage, search)
        IN  matching # <<>> /\ result.name = matching[Len(matching)]

\* C6, amended: the name returned is the last anchor text of the first line
\* of the page whose last anchor matches case-insensitively; the lines after
\* it are not read.
C6_LastAnchorOfFirstFoundLine ==
    result.status = "returned" =>
        LET texts == AnchorTexts(CurrentPage[linepos])
        IN  /\ LastAnchorMatches(CurrentPage[linepos])
            /\ result.name = texts[Len(texts)]
            /\ \A k \in 1..(linepos - 1) : ~LastAnchorMatches(CurrentPage[k])

\* A name was returned from a line with two matching anchors, with a
\* further match on a later line.
C6_Witness ==
    /\ result.status = "returned"
    /\ Len(MatchingAnchors(<<CurrentPage[linepos]>>, search)) = 2
    /\ linepos < Len(CurrentPage)
    /\ Len(MatchingAnchors(CurrentPage, search)) > 2

\* C7 as the specification states it: the lookup is past an index only if
\* that index lists no match, so that a name returned comes from the first
\* index, in iteration order, that lists a match.
C7_FirstIndexWithMatch ==
    /\ \A k \in 1..(urlpos - 1) : ~ListsMatch(SearchedIndexes(index_urls)[k])
    /\ result.status = "returned" =>
          ListsMatch(SearchedIndexes(index_urls)[urlpos])

\* C8 as the specification states it: the lookup raises exactly when no
\* index lists a match, the default index being the one consulted when no
\* index URL is given.
C8_RaisesIffNoMatch ==
    result.status # "running" =>
        (result.status = "raised"
            <=> \A k \in 1..Len(SearchedIndexes(index_urls)) :
                    ~ListsMatch(SearchedIndexes(index_urls)[k]))

(***************************************************************************)
(* Properties of resolve_specifier (SpecResolve)                           *)
(***************************************************************************)

\* C9: a pinned or editable specifier is returned as parsed, with no
\* lookup; any other is looked up once, with the prerelease flag passed on,
\* and the result of that lookup is the outcome.
C9_LookupOnlyUnpinned ==
    (rlast # NoCall /\ rlast.unexpected = "none") =>
        LET ireq == from_line(rlast.specifier, NoText)
        IN  IF ireq.editable \/ is_pinned_requirement(ireq)
            THEN /\ Len(rcalls) = rlast.before
                 /\ rlast.returned = ireq
                 /\ ~rlast.raised
            ELSE /\ Len(rcalls) = rlast.before + 1
                 /\ rcalls[Len(rcalls)].ireq = ireq
                 /\ rcalls[Len(rcalls)].prereleases = rlast.prereleases
                 /\ rlast.returned = rcalls[Len(rcalls)].found
                 /\ rlast.raised <=> rcalls[Len(rcalls)].found = NoCandidate

\* A pinned specifier was returned as parsed after an earlier call had
\* looked a candidate up.
C9_Witness ==
    /\ rlast # NoCall
    /\ rlast.unexpected = "none"
    /\ is_pinned_requirement(from_line(rlast.specifier, NoText))
    /\ rlast.returned = from_line(rlast.specifier, NoText)
    /\ Len(rcalls) >= 1
    /\ rcalls[Len(rcalls)].found # rcalls[Len(rcalls)].ireq


(***************************************************************************)
(* Properties of remove and of the object's fields (Spec)                  *)
(***************************************************************************)

\* The names the arguments of the last `remove` give.
RemovedNames == {name_from_req(from_line(a, NoText)) : a \in Range(last.args)}

\* The file of the last `remove` as a RequirementFile made before it ran.
BeforeRemove ==
    RequirementFile([fs EXCEPT ![last.path] = last.old], last.path, MaxDepth)

\* C11 as the specification states it: a `remove` of names none of which is
\* in the tag file leaves the content of the file byte for byte as it was.
C11_AbsentNameKeepsBytes ==
    (/\ last.op = "remove"
     /\ \A x \in Range(last.before) : name_from_req(x) \notin RemovedNames)
        => fs[last.path] = last.old

\* C15 as the specification states it: the file rewritten by `remove`
\* parses to the index URLs it had, in their order, and to nested
\* constraint and requirement files of the same paths.
C15_RewriteKeepsReferences ==
    last.op = "remove" =>
        LET after == RequirementFile(fs, last.path, MaxDepth)
            Names(nested) == [i \in 1..Len(nested) |-> nested[i].filename]
            Found(nested) == \A i \in 1..Len(nested) :
                                 Exists(fs, nested[i].filename)
        IN  /\ after.err = "ok"
            /\ after.index_urls = BeforeRemove.index_urls
            /\ Names(after.nested_cfiles) = Names(BeforeRemove.nested_cfiles)
            /\ Names(after.nested_rfiles) = Names(BeforeRemove.nested_rfiles)
            /\ Found(after.nested_cfiles) /\ Found(after.nested_rfiles)

AddedAlone(k) ==
    /\ acmd.resolve_versions
    /\ Len(acmd.specifiers) = 1
    /\ NeedsLookup(from_line(acmd.specifiers[1], NoText))
    /\ ~acalls[k].before.exists
    /\ acalls[k].err = "ok"

\* The version clause find_best_match answered for the line of the call.
ResolvedClause(k) ==
    acalls[k].best[Lower(from_line(acmd.specifiers[1], NoText).name)]
        .ireq.specifier

\* C12 as stated: the body written is exactly one line, the name as the
\* input line spells it pinned to the version the resolver returned.
C12_BodyIsInputNamePinned ==
    \A k \in DOMAIN acalls :
        AddedAlone(k) =>
            acalls[k].body =
                from_line(acmd.specifiers[1], NoText).name
                    \o ResolvedClause(k) \o <<"\n">>

\* C12: the body written is exactly one line, the name of the input line in
\* lower case pinned to the version the resolver returned, and the source
\* file ends with that body.
C12_BodyIsLowerNamePinned ==
    \A k \in DOMAIN acalls :
        AddedAlone(k) =>
            /\ acalls[k].body =
                   Lower(from_line(acmd.specifiers[1], NoText).name)
                       \o ResolvedClause(k) \o <<"\n">>
            /\ acalls[k].content =
                   build_source_header(<<>>, <<>>, <<>>, k) \o acalls[k].body

\* `add A` answered with A==1 has written the body a==1 to a new file.
C12_Witness ==
    /\ acmd.specifiers = <<<<"A">>>>
    /\ acalls # <<>>
    /\ AddedAlone(1)
    /\ acalls[1].body = Line_a1 \o <<"\n">>
    /\ afs[TagFile(acalls[1].tag)] = File(acalls[1].content)

\* The index URLs of the source file a tag had when the command began: none
\* when the file did not exist.
DeclaredIndexUrls(tag_name) ==
    IF Exists(afs0, TagFile(tag_name))
    THEN Range(RequirementFile(afs0, TagFile(tag_name), MaxDepth).index_urls)
    ELSE {}

\* The union over all the tags of the command line.
RequestedIndexUrls ==
    UNION {DeclaredIndexUrls(acmd.tags[i]) : i \in DOMAIN acmd.tags}

\* C13: until the collection over all requested tags is complete nothing
\* is resolved and no file is written; every call of extend_source_file,
\* for whichever tag, is passed the union of the index URLs of the
\* requested tags' files as they were when the command began, an absent
\* file contributing none; and the canonical name of b, which only the
\* extra index lists, is found for a tag exactly when some requested tag's
\* file declares that index.
C13_UnionCollectedFirst ==
    /\ apc \in {"start", "collect"} => (afs = afs0 /\ acalls = <<>>)
    /\ \A k \in DOMAIN acalls :
          /\ acalls[k].lookup = RequestedIndexUrls
          /\ ( /\ acmd.resolve_canonical_names
               /\ acmd.specifiers = <<Line_b>>
               /\ acmd.resolve_versions => acalls[k].best[Name_b].found )
             => (acalls[k].err = "ok" <=> Url_1 \in RequestedIndexUrls)

\* b has been added to the tag p, whose file declares no index, by a lookup
\* on the index only the file of the tag q declares.
C13_Witness ==
    /\ acmd.specifiers = <<Line_b>>
    /\ acmd.resolve_canonical_names
    /\ Url_1 \notin DeclaredIndexUrls(File_p)
    /\ \E k \in DOMAIN acalls :
          /\ acalls[k].tag = File_p
          /\ acalls[k].err = "ok"
          /\ Url_1 \in acalls[k].lookup
          /\ afs[P] = File(acalls[k].content)
          /\ afs[P] # afs0[P]
    /\ \E i \in DOMAIN acmd.tags : ~Exists(afs0, TagFile(acmd.tags[i]))

\* The calls of extend_source_file in which version resolution reported
\* that no candidate exists.
NoCandidateCalls == {k \in DOMAIN acalls : acalls[k].err = "NoCandidateFound"}

\* C14: when version resolution reports no candidate at the k-th tag, the
\* call is the last one made and the command is aborted; the source files
\* of the tags before it hold what their calls wrote, and the source files
\* of the k-th and of every later tag are as they were before the command.
C14_AbortKeepsEarlierWrites ==
    \A k \in NoCandidateCalls :
        /\ k = Len(acalls)
        /\ apc = "aborted"
        /\ \A i \in 1..(k - 1) :
              /\ acalls[i].err = "ok"
              /\ afs[TagFile(acmd.tags[i])] = File(acalls[i].content)
        /\ \A i \in k..Len(acmd.tags) :
              afs[TagFile(acmd.tags[i])] = afs0[TagFile(acmd.tags[i])]

\* The first tag was written, the resolver found no candidate at the
\* second, whose file exists and is as it was.
C14_Witness ==
    /\ 2 \in NoCandidateCalls
    /\ apc = "aborted"
    /\ afs[TagFile(acmd.tags[1])] # afs0[TagFile(acmd.tags[1])]
    /\ afs[TagFile(acmd.tags[2])] = afs0[TagFile(acmd.tags[2])]
    /\ afs0[TagFile(acmd.tags[2])].exists

\* The calls of extend_source_file that add one line without an exact
\* version to a tag whose source file does not exist, and return.
AddedUnpinnedAlone(k) ==
    /\ Len(acmd.specifiers) = 1
    /\ NeedsLookup(from_line(acmd.specifiers[1], NoText))
    /\ ~acalls[k].before.exists
    /\ acalls[k].err = "ok"

\* Whether the one line of the body written carries a pinned version.
SavedPinned(k) ==
    is_pinned_requirement(
        from_line(SubSeq(acalls[k].body, 1, Len(acalls[k].body) - 1), NoText))

\* C16 as stated: a specifier given without an exact version is saved
\* pinned with --pin and saved without a pinned version with --no-pin.
C16_PinFlagDecides ==
    \A k \in DOMAIN acalls :
        AddedUnpinnedAlone(k) => (SavedPinned(k) <=> acmd.pin)

\* C18 as stated: the set build_ireq_set builds for a call never holds two
\* specifiers with the same rendering, and neither does the union with the
\* requirements of the file, whose body then has no line twice.
C18_NoEqualRenderings ==
    \A k \in DOMAIN acalls :
        acalls[k].err = "ok" =>
            LET items == acalls[k].built.items
                lines == SplitLines(acalls[k].body)
            IN  /\ \A i, j \in DOMAIN items :
                      Str(items[i].ireq) = Str(items[j].ireq) => i = j
                /\ \A i, j \in DOMAIN lines : lines[i] = lines[j] => i = j

(***************************************************************************)
(* Properties of resolution switched off (SpecResolve)                     *)
(***************************************************************************)

\* C17 as stated: a call resolve_specifier(line, resolve_versions=False)
\* returns the requirement built from the line without a call to the
\* resolver, and for a line that names only a package the requirement is
\* not pinned.
C17_KeywordCallBuildsDirectly ==
    rlast.unexpected = "resolve_versions" =>
        /\ ~rlast.raised
        /\ ~rlast.looked
        /\ Len(rcalls) = rlast.before
        /\ rlast.returned = from_line(rlast.specifier, NoText)
        /\ rlast.specifier = Line_a => ~is_pinned_requirement(rlast.returned)

(***************************************************************************)
(* Properties of two invocations on one tag file (SpecRace)                *)
(***************************************************************************)

\* The invocation whose replace happened last.
LastReplacer == corder[Len(corder)]

\* The names of the requirements the tag file holds.
TagFileNames ==
    LET reqs == RequirementFile(cdisk, P, MaxDepth).requirements
    IN  {reqs[i].name : i \in DOMAIN reqs}

\* C19: no invocation waits for the other, and in every interleaving the
\* tag file holds what it began with until the first replace and from then
\* on exactly the complete output of the invocation whose replace happened
\* last, computed from the content that invocation read; no replace fails.
C19_LastReplaceWins ==
    /\ corder = <<>> => cdisk[P] = cold
    /\ corder # <<>> =>
          /\ cdisk[P] = File(cproc[LastReplacer].out)
          /\ cproc[LastReplacer].out =
                 Output(LastReplacer, cproc[LastReplacer].read,
                        Computed([cdisk EXCEPT
                                    ![P] = cproc[LastReplacer].read],
                                 cproc[LastReplacer].job, LastReplacer)).out
    /\ \A i \in Invocations :
          /\ cproc[i].pc # "failed"
          /\ cproc[i].pc = "done" => \E n \in DOMAIN corder : corder[n] = i

\* Both invocations have replaced the file, the first one a `remove` of a
\* name, and the file of the second, which read before that replace, still
\* holds the name.
C19_Witness ==
    /\ Len(corder) = 2
    /\ cproc[corder[1]].job.kind = "remove"
    /\ cproc[corder[2]].job # cproc[corder[1]].job
    /\ cproc[corder[2]].read = cold
    /\ cdisk[P] = File(cproc[corder[2]].out)
    /\ \A i \in DOMAIN cproc[corder[1]].job.specifiers :
          cproc[corder[1]].job.specifiers[i] \in TagFileNames

(***************************************************************************)
(* Properties of the parser's states (SpecParser)                          *)
(***************************************************************************)

\* C24: after any sequence of start-tag, end-tag and data events, whenever
\* the parser is in state found_package_name the last element of
\* collected_packages is the search name up to case, and the name
\* get_canonical_name returns from that state is the requested name up to
\* case.
C24_FoundMeansLastMatches ==
    /\ hparser.state = "found_package_name" =>
          /\ hparser.collected_packages # <<>>
          /\ Lower(hparser.collected_packages[
                       Len(hparser.collected_packages)]) = hparser.search
    /\ hreturned.status = "returned" => Lower(hreturned.name) = hparser.search

\* Two names were collected, the second one matched in another case than
\* the first, and it was returned.
C24_Witness ==
    /\ hparser.state = "found_package_name"
    /\ Len(hparser.collected_packages) = 2
    /\ hparser.collected_packages[1] = Name_b
    /\ hparser.collected_packages[2] # hparser.search
    /\ hreturned.status = "returned"

(***************************************************************************)
(* Properties of the first statements of `reqwire add` (SpecAdd)           *)
(***************************************************************************)

\* main_add is past its first statements.
AddStarted == apc # "start"

\* C23: until the directory check and the installation are over no source
\* file is read or written; the installation is run whenever --install is
\* on and the directory exists, and the command is past it only if it
\* succeeded; if the installation fails or the requirements directory does
\* not exist the command is aborted with every source file as it was and
\* no tag file read.
C23_InstallBeforeFiles ==
    /\ ~AddStarted => (afs = afs0 /\ alookup = {} /\ acalls = <<>>)
    /\ AddStarted =>
          /\ astart.ran <=> (astart.initialised /\ astart.install)
          /\ (apc # "aborted" \/ acalls # <<>> \/ alookup # {}) =>
                /\ astart.initialised
                /\ astart.install => astart.installed
          /\ (~astart.initialised \/ (astart.install /\ ~astart.installed)) =>
                /\ apc = "aborted"
                /\ afs = afs0
                /\ alookup = {}
                /\ acalls = <<>>

\* pip install failed for a command on two tags of which one has a source
\* file: the command is aborted.
C23_Witness ==
    /\ AddStarted
    /\ astart.ran
    /\ ~astart.installed
    /\ apc = "aborted"
    /\ Len(acmd.tags) = 2
    /\ \E path \in Paths : afs[path].exists

(***************************************************************************)
(* Properties of the loop of build_ireq_set (SpecBuild)                    *)
(***************************************************************************)

\* The objects the ordered set holds.
Members == {bset[n].id : n \in DOMAIN bset}

\* C22: the object a rename is about to change is not in the set yet, and
\* every member of the set renders as it did when it was added.
C22_RenameBeforeInsert ==
    /\ bpc = "canonical" => bcur \notin Members
    /\ \A n \in DOMAIN bset : Str(bheap[bset[n].id].ireq) = bset[n].key

\* The set returned holds a requirement renamed to the canonical name A,
\* made from the line a.
C22_Witness ==
    /\ bpc = "returned"
    /\ bargs.resolve_canonical_names
    /\ ~bargs.resolve_versions
    /\ bargs.specifiers[1] = Line_a
    /\ bset # <<>>
    /\ bheap[bset[1].id].ireq.name = Name_A
    /\ bset[1].key = Name_A

(***************************************************************************)
(* Properties of the construction of a RequirementFile (LiveConstruct)     *)
(***************************************************************************)

\* The files a file includes, read off its text: the lines `-r x` and
\* `-c x`, x taken in the directory of the file.
IncludedBy(path) ==
    IF ~Exists(nfiles, path) THEN {}
    ELSE LET lines == SplitLines(nfiles[path].data)
         IN  {Dir \o <<"/">> \o SubSeq(lines[n], 4, Len(lines[n])) :
                 n \in {m \in DOMAIN lines :
                           \/ StartsWith(lines[m], Opt_r \o <<" ">>)
                           \/ StartsWith(lines[m], Opt_c \o <<" ">>)}}

\* The files reached from a set of files by at most n includes.
RECURSIVE ReachedWithin(_, _)
ReachedWithin(S, n) ==
    IF n = 0 THEN S
    ELSE ReachedWithin(S \cup UNION {IncludedBy(path) : path \in S}, n - 1)

\* The files reached from a file by one include or more.
ReachedFrom(path) == ReachedWithin(IncludedBy(path), Cardinality(Paths))

\* The include graph reachable from the file constructed has a cycle.
CyclicIncludes == \E path \in {P} \cup ReachedFrom(P) : path \in ReachedFrom(path)

\* C21: when the includes reachable from the file constructed form a
\* cycle, the constructor never returns: the calls nest deeper and deeper,
\* and the only end the construction has is the recursion error raised at
\* the deepest call the interpreter allows; when they form no cycle the
\* construction ends, by returning or by an error of pip's parser, below
\* that depth.
C21_CycleNeverCompletes ==
    /\ [](CyclicIncludes =>
            /\ nstatus.status # "returned"
            /\ nstatus.status = "raised" =>
                  (nstatus.err = "recursion" /\ Len(nstack) = RecursionLimit))
    /\ [](~CyclicIncludes => nstatus.err # "recursion")
    /\ (~CyclicIncludes => <>(nstatus.status # "running"))
    /\ (CyclicIncludes => <>(Len(nstack) = RecursionLimit))

\* p includes q and q includes p: the calls have nested to the deepest
\* level, p and q in turn.
C21_Witness ==
    /\ CyclicIncludes
    /\ Q \in IncludedBy(P)
    /\ P \in IncludedBy(Q)
    /\ Len(nstack) = RecursionLimit
    /\ \A n \in DOMAIN nstack :
          nstack[n].filename = IF n % 2 = 1 THEN P ELSE Q
    /\ nstatus.status = "raised"
====
